---- MODULE Spec2Model ----
(***************************************************************************)
(* Email compatibility engine: the support resolver and summary            *)
(* (src/lib/caniemail.ts), the reference index builders, the markup        *)
(* feature extractor (src/lib/feature-extractor.ts) and the classifier.    *)
(*                                                                         *)
(* A JavaScript string is modelled as a sequence of one-character strings, *)
(* so that prefix stripping, lowercasing, splitting and the regular        *)
(* expressions of the source are computed character by character.          *)
(***************************************************************************)
EXTENDS Integers, Sequences, FiniteSets, TLC

VARIABLES
    feature,    \* getFeatureSupportSummary: its argument
    ci,         \* getFeatureSupportSummary: clients of MAJOR_CLIENTS already visited
    support,    \* getFeatureSupportSummary: getSupportLevel's answer for the last client visited
    result,     \* getFeatureSupportSummary: the four lists under construction
    sets,       \* createCompatibilityIssues: the four extracted identifier sets
    maps,       \* createCompatibilityIssues: the three reference mappings
    call,       \* createCompatibilityIssues: the processFeatures call under way (1..4), 5 once returned
    item,       \* processFeatures: items of the current set already visited
    issues,     \* createCompatibilityIssues: the issue list
    processedSlugs, \* createCompatibilityIssues: slugs already emitted
    data,       \* build*Map: the reference features, in dataset order
    builder,    \* which of buildCssPropertyMap, buildHtmlElementMap, buildHtmlAttributeMap runs
    bi,         \* build*Map: features already visited
    bmap,       \* build*Map: the map under construction
    html,       \* extractFeatures: its argument
    throwsOn,   \* safeParser: the texts it throws on
    phase,      \* extractFeatures: "inline", "tags", "done" once returned, "raised"
    lastIndex,  \* the lastIndex of the regex of the loop under way
    root,       \* the parsed tree under walk, its nodes in walk order
    walk,       \* "properties", "atRules", or "none" outside a walk
    ni,         \* nodes of root already visited by the walk
    cssProperties,  \* extractFeatures: the property set
    cssAtRules,     \* extractFeatures: the at-rule set
    cssValues,      \* extractFeatures: the values seen per property
    htmlAttributes, \* extractFeatures: the attribute set returned
    htmlElements,   \* extractFeatures: the element set returned
    raised,     \* an exception left extractFeatures
    calls,      \* calls of extractFeatures begun
    firstResult, \* per argument, what the first call on it returned
    cachedData, \* caniemail.ts: the module-level cachedData
    now,        \* the time, in seconds
    cachedAt,   \* the time at which cachedData was assigned
    upstream,   \* the number of the dataset caniemail.com serves
    fetchers,   \* per caller of fetchCanIEmailData: where its call is, what it got
    hooks,      \* per mount of a component that uses useAsyncData: its hook
    mounts      \* the mounts so far

sumVars == <<feature, ci, support, result>>
clsVars == <<sets, maps, call, item, issues, processedSlugs>>
idxVars == <<data, builder, bi, bmap>>
extVars == <<html, throwsOn, phase, lastIndex, root, walk, ni, cssProperties, cssAtRules,
             cssValues, htmlAttributes, htmlElements, raised, calls, firstResult>>
fetchVars == <<cachedData, now, cachedAt, upstream, fetchers>>
hookVars == <<hooks, mounts>>
vars == <<feature, ci, support, result, sets, maps, call, item, issues, processedSlugs,
          data, builder, bi, bmap, html, throwsOn, phase, lastIndex, root, walk, ni,
          cssProperties, cssAtRules, cssValues, htmlAttributes, htmlElements, raised,
          calls, firstResult, cachedData, now, cachedAt, upstream, fetchers,
          hooks, mounts>>

(***************************************************************************)
(* Bounds of the model.                                                    *)
(***************************************************************************)
MaxVersions == 2   \* versions recorded under one (family, platform) cell
MaxCells == 2      \* (family, platform) cells a feature of InitSummary records
MaxFeatures == 2   \* reference features in a dataset

(***************************************************************************)
(* Characters and strings.                                                 *)
(***************************************************************************)
Digits == {"0", "1", "2", "3", "4", "5", "6", "7", "8", "9"}
Whitespace == {" ", "\t", "\n"}

DigitValue(c) ==
    CASE c = "0" -> 0 [] c = "1" -> 1 [] c = "2" -> 2 [] c = "3" -> 3
      [] c = "4" -> 4 [] c = "5" -> 5 [] c = "6" -> 6 [] c = "7" -> 7
      [] c = "8" -> 8 [] c = "9" -> 9

Last(s) == s[Len(s)]

RECURSIVE ToNumber(_)
ToNumber(s) ==
    IF s = <<>> THEN 0
    ELSE 10 * ToNumber(SubSeq(s, 1, Len(s) - 1)) + DigitValue(Last(s))

\* Index of the first position >= i of s whose character is not in cls
\* (Len(s) + 1 when there is none): the greedy match of cls* at i.
RECURSIVE SkipWhile(_, _, _)
SkipWhile(s, i, cls) ==
    IF i <= Len(s) /\ s[i] \in cls THEN SkipWhile(s, i + 1, cls) ELSE i

UpperCase == <<"A", "B", "C", "D", "E", "F", "G", "H", "I", "J", "K", "L", "M",
               "N", "O", "P", "Q", "R", "S", "T", "U", "V", "W", "X", "Y", "Z">>
LowerCase == <<"a", "b", "c", "d", "e", "f", "g", "h", "i", "j", "k", "l", "m",
               "n", "o", "p", "q", "r", "s", "t", "u", "v", "w", "x", "y", "z">>

Letters == {UpperCase[i] : i \in 1..Len(UpperCase)} \cup {LowerCase[i] : i \in 1..Len(LowerCase)}

ToLowerChar(c) ==
    IF \E i \in 1..Len(UpperCase) : UpperCase[i] = c
    THEN LowerCase[CHOOSE i \in 1..Len(UpperCase) : UpperCase[i] = c]
    ELSE c

\* String.prototype.toLowerCase
ToLowerCase(s) == [i \in 1..Len(s) |-> ToLowerChar(s[i])]

\* String.prototype.startsWith / endsWith
StartsWith(s, prefix) ==
    Len(prefix) <= Len(s) /\ SubSeq(s, 1, Len(prefix)) = prefix

EndsWith(s, suffix) ==
    Len(suffix) <= Len(s) /\ SubSeq(s, Len(s) - Len(suffix) + 1, Len(s)) = suffix

\* Does literal lit stand at position i of s?
LiteralAt(s, i, lit) ==
    i + Len(lit) - 1 <= Len(s) /\ SubSeq(s, i, i + Len(lit) - 1) = lit

\* Does lit, a lowercase literal, stand at position i of s under the i flag?
LiteralAtNoCase(s, i, lit) ==
    i + Len(lit) - 1 <= Len(s) /\ ToLowerCase(SubSeq(s, i, i + Len(lit) - 1)) = lit

\* String.prototype.includes
Includes(s, sub) == \E i \in 1..(Len(s) + 1) : LiteralAt(s, i, sub)

\* s.replace(/^prefix/, '') and s.replace(/suffix$/, '')
StripPrefix(s, prefix) ==
    IF StartsWith(s, prefix) THEN SubSeq(s, Len(prefix) + 1, Len(s)) ELSE s

StripSuffix(s, suffix) ==
    IF EndsWith(s, suffix) THEN SubSeq(s, 1, Len(s) - Len(suffix)) ELSE s

\* s.replace(/c/g, d)
ReplaceAllChars(s, c, d) == [i \in 1..Len(s) |-> IF s[i] = c THEN d ELSE s[i]]

\* String.prototype.trim
RECURSIVE TrimEnd(_)
TrimEnd(s) ==
    IF s # <<>> /\ Last(s) \in Whitespace THEN TrimEnd(SubSeq(s, 1, Len(s) - 1)) ELSE s

Trim(s) == TrimEnd(SubSeq(s, SkipWhile(s, 1, Whitespace), Len(s)))

\* String.prototype.split(sep) for a one-character separator.
RECURSIVE Split(_, _)
Split(s, sep) ==
    IF \E i \in 1..Len(s) : s[i] = sep
    THEN LET i == CHOOSE k \in 1..Len(s) : s[k] = sep /\ \A m \in 1..(k - 1) : s[m] # sep
         IN  <<SubSeq(s, 1, i - 1)>> \o Split(SubSeq(s, i + 1, Len(s)), sep)
    ELSE <<s>>

(***************************************************************************)
(* JavaScript objects with string keys.  An object is the sequence of its  *)
(* [key, value] entries in insertion order, keys distinct.                 *)
(***************************************************************************)
\* An "array index" key: a canonical decimal numeral below 2^32 - 1.
IsArrayIndex(k) ==
    /\ k # <<>>
    /\ \A i \in 1..Len(k) : k[i] \in Digits
    /\ (Len(k) = 1 \/ k[1] # "0")
    /\ Len(k) <= 9

NotArrayIndex(k) == ~IsArrayIndex(k)

InsertionKeys(obj) == [i \in 1..Len(obj) |-> obj[i].key]

RECURSIVE Ascending(_)
Ascending(ks) ==
    IF ks = {} THEN <<>>
    ELSE LET least == CHOOSE k \in ks : \A o \in ks : ToNumber(k) <= ToNumber(o)
         IN  <<least>> \o Ascending(ks \ {least})

\* Object.keys(obj): the array-index keys in ascending numeric order, then
\* the other string keys in insertion order (OrdinaryOwnPropertyKeys).
ObjectKeys(obj) ==
    Ascending({obj[i].key : i \in {j \in 1..Len(obj) : IsArrayIndex(obj[j].key)}})
        \o SelectSeq(InsertionKeys(obj), NotArrayIndex)

ObjectGet(obj, k) == obj[CHOOSE i \in 1..Len(obj) : obj[i].key = k].value

(***************************************************************************)
(* The client panel.                                                       *)
(***************************************************************************)
MAJOR_CLIENTS ==
    << [family |-> "gmail",         label |-> "Gmail",           platform |-> "desktop-webmail"],
       [family |-> "outlook",       label |-> "Outlook Windows", platform |-> "windows"],
       [family |-> "outlook",       label |-> "Outlook Mac",     platform |-> "macos"],
       [family |-> "outlook",       label |-> "Outlook.com",     platform |-> "outlook-com"],
       [family |-> "apple-mail",    label |-> "Apple Mail",      platform |-> "macos"],
       [family |-> "apple-mail",    label |-> "iOS Mail",        platform |-> "ios"],
       [family |-> "yahoo",         label |-> "Yahoo",           platform |-> "desktop-webmail"],
       [family |-> "samsung-email", label |-> "Samsung Email",   platform |-> "android"] >>

Panel == {MAJOR_CLIENTS[i] : i \in 1..Len(MAJOR_CLIENTS)}

(***************************************************************************)
(* getSupportLevel.                                                        *)
(***************************************************************************)
LevelCodes == {"y", "n", "a", "u"}

NoMatch == [matched |-> FALSE, level |-> "", noteNum |-> <<>>]

\* rawValue.match(/^([ynau])\s*(?:#(\d+))?$/)
MatchLevel(rawValue) ==
    IF rawValue = <<>> \/ rawValue[1] \notin LevelCodes THEN NoMatch
    ELSE LET j == SkipWhile(rawValue, 2, Whitespace)
         IN  IF j = Len(rawValue) + 1
             THEN [matched |-> TRUE, level |-> rawValue[1], noteNum |-> <<>>]
             ELSE IF /\ rawValue[j] = "#"
                     /\ j < Len(rawValue)
                     /\ \A k \in (j + 1)..Len(rawValue) : rawValue[k] \in Digits
                  THEN [matched |-> TRUE, level |-> rawValue[1],
                        noteNum |-> SubSeq(rawValue, j + 1, Len(rawValue))]
                  ELSE NoMatch

NoNote == [defined |-> FALSE, text |-> ""]

\* noteNum ? feature.notesByNum?.[noteNum] : undefined
NoteOf(f, noteNum) ==
    IF noteNum = <<>> \/ f.notesByNum.isNull \/ noteNum \notin DOMAIN f.notesByNum.notes
    THEN NoNote
    ELSE [defined |-> TRUE, text |-> f.notesByNum.notes[noteNum]]

NullSupport == [isNull |-> TRUE, level |-> "", note |-> NoNote, version |-> <<>>]

LatestVersion(platformStats) ==
    LET keys == ObjectKeys(platformStats)
    IN  IF keys = <<>> THEN <<>> ELSE Last(keys)

GetSupportLevel(f, family, platform) ==
    IF family \notin DOMAIN f.stats THEN NullSupport
    ELSE LET familyStats == f.stats[family]
         IN  IF platform \notin DOMAIN familyStats THEN NullSupport
             ELSE LET platformStats == familyStats[platform]
                      latestVersion == LatestVersion(platformStats)
                  IN  IF latestVersion = <<>> THEN NullSupport
                      ELSE LET levelMatch == MatchLevel(ObjectGet(platformStats, latestVersion))
                           IN  IF ~levelMatch.matched
                               THEN [isNull |-> FALSE, level |-> "u", note |-> NoNote,
                                     version |-> latestVersion]
                               ELSE [isNull |-> FALSE, level |-> levelMatch.level,
                                     note |-> NoteOf(f, levelMatch.noteNum),
                                     version |-> latestVersion]

(***************************************************************************)
(* getFeatureSupportSummary: one iteration of its loop, and the whole.     *)
(***************************************************************************)
EmptySummary == [partial |-> <<>>, supported |-> <<>>, unknown |-> <<>>, unsupported |-> <<>>]

\* A loop body that lacks the `continue` of the supported branch.
PlaceClientFallingThrough(res, f, client) ==
    LET sup == GetSupportLevel(f, client.family, client.platform)
    IN  IF sup.isNull \/ sup.level = "u"
        THEN [res EXCEPT !.unknown = Append(@, client)]
        ELSE IF sup.level = "y"
        THEN [res EXCEPT !.supported = Append(@, client), !.unsupported = Append(@, client)]
        ELSE IF sup.level = "a"
        THEN [res EXCEPT !.partial = Append(@, client)]
        ELSE [res EXCEPT !.unsupported = Append(@, client)]

PlaceClient(res, f, client) ==
    LET sup == GetSupportLevel(f, client.family, client.platform)
    IN  IF sup.isNull \/ sup.level = "u"
        THEN [res EXCEPT !.unknown = Append(@, client)]
        ELSE IF sup.level = "y"
        THEN [res EXCEPT !.supported = Append(@, client)]
        ELSE IF sup.level = "a"
        THEN [res EXCEPT !.partial = Append(@, client)]
        ELSE [res EXCEPT !.unsupported = Append(@, client)]

RECURSIVE SummaryOfFirst(_, _)
SummaryOfFirst(f, n) ==
    IF n = 0 THEN EmptySummary
    ELSE PlaceClient(SummaryOfFirst(f, n - 1), f, MAJOR_CLIENTS[n])

GetFeatureSupportSummary(f) == SummaryOfFirst(f, Len(MAJOR_CLIENTS))

(***************************************************************************)
(* createCompatibilityIssues.                                              *)
(***************************************************************************)
\* A JavaScript Map is a function on its keys; a JavaScript Set is the
\* sequence of its members in iteration (insertion) order.
EmptyMap == <<>>

MapHas(map, key) == key \in DOMAIN map

\* The four processFeatures calls with the attributes processed first.
CallsAttributesFirst ==
    << [items |-> "htmlAttributes", featureMap |-> "attribute", featureType |-> "html-attribute"],
       [items |-> "cssProperties",  featureMap |-> "css",       featureType |-> "css"],
       [items |-> "cssAtRules",     featureMap |-> "css",       featureType |-> "css-at-rule"],
       [items |-> "htmlElements",   featureMap |-> "element",   featureType |-> "html-element"] >>

\* The four processFeatures calls, in the order of the source.
Calls ==
    << [items |-> "cssProperties",  featureMap |-> "css",       featureType |-> "css"],
       [items |-> "cssAtRules",     featureMap |-> "css",       featureType |-> "css-at-rule"],
       [items |-> "htmlElements",   featureMap |-> "element",   featureType |-> "html-element"],
       [items |-> "htmlAttributes", featureMap |-> "attribute", featureType |-> "html-attribute"] >>

\* formatProperty: HTML elements are wrapped as <el>, the rest passes through.
FormatProperty(featureType, it) ==
    IF featureType = "html-element" THEN <<"<">> \o it \o <<">">> ELSE it

\* A severity rule that looks at the partial list first.
SeverityPartialFirst(summary) ==
    IF summary.partial # <<>> THEN "warning"
    ELSE IF summary.unsupported # <<>> THEN "error"
    ELSE "success"

SeverityOf(summary) ==
    IF summary.unsupported # <<>> THEN "error"
    ELSE IF summary.partial # <<>> THEN "warning"
    ELSE "success"

\* A skip test that forgets the slugs already emitted.
SkipsIgnoringProcessed(featureMap, it, slugs) == ~MapHas(featureMap, it)

\* if (!feature || processedSlugs.has(feature.slug)) continue;
Skips(featureMap, it, slugs) ==
    IF ~MapHas(featureMap, it) THEN TRUE ELSE featureMap[it].slug \in slugs

IssueOf(f, featureType, it) ==
    LET summary == GetFeatureSupportSummary(f)
    IN  [feature |-> f, featureType |-> featureType,
         property |-> FormatProperty(featureType, it),
         severity |-> SeverityOf(summary), summary |-> summary]

ClassifierIdle ==
    /\ sets = [cssProperties |-> <<>>, cssAtRules |-> <<>>,
               htmlElements |-> <<>>, htmlAttributes |-> <<>>]
    /\ maps = [css |-> EmptyMap, element |-> EmptyMap, attribute |-> EmptyMap]
    /\ call = 5
    /\ item = 0
    /\ issues = <<>>
    /\ processedSlugs = {}

CurrentItems == sets[Calls[call].items]

\* A lookup that uses the CSS mapping for every category.
CurrentMapAlwaysCss == maps.css

CurrentMap == maps[Calls[call].featureMap]

\* One iteration of `for (const item of items)` that skips the item.
SkipItem ==
    /\ call <= Len(Calls)
    /\ item < Len(CurrentItems)
    /\ Skips(CurrentMap, CurrentItems[item + 1], processedSlugs)
    /\ item' = item + 1
    /\ UNCHANGED <<sets, maps, call, issues, processedSlugs>>

\* One iteration of `for (const item of items)` that emits an issue.
EmitIssue ==
    /\ call <= Len(Calls)
    /\ item < Len(CurrentItems)
    /\ ~Skips(CurrentMap, CurrentItems[item + 1], processedSlugs)
    /\ LET it == CurrentItems[item + 1]
           f == CurrentMap[it]
       IN  /\ processedSlugs' = processedSlugs \cup {f.slug}
           /\ issues' = Append(issues, IssueOf(f, Calls[call].featureType, it))
    /\ item' = item + 1
    /\ UNCHANGED <<sets, maps, call>>

\* processFeatures returns; the next call starts, or `return issues`.
NextCall ==
    /\ call <= Len(Calls)
    /\ item = Len(CurrentItems)
    /\ call' = call + 1
    /\ item' = 0
    /\ UNCHANGED <<sets, maps, issues, processedSlugs>>

(***************************************************************************)
(* The reference index builders: buildCssPropertyMap, buildHtmlElementMap, *)
(* buildHtmlAttributeMap.                                                  *)
(***************************************************************************)
\* Map.prototype.set
MapSet(map, key, value) ==
    [k \in DOMAIN map \cup {key} |-> IF k = key THEN value ELSE map[k]]

\* [a-z0-9-] and [a-z-] under the i flag
NameChars == Letters \cup Digits \cup {"-"}
AttrNameChars == Letters \cup {"-"}

NoGroup == [matched |-> FALSE, group |-> <<>>]

\* At position i of s: a non-empty run of cls, then whitespace, then the
\* lowercase word, letters compared without case: (cls+)\s+word under flag i.
NameThenWordAt(s, i, cls, word) ==
    LET j == SkipWhile(s, i, cls)
        k == SkipWhile(s, j, Whitespace)
    IN  j > i /\ k > j /\ LiteralAt(ToLowerCase(s), k, word)

\* title.match(/<([a-z0-9-]+)>/i)
MatchBracketedTag(title) ==
    LET starts == { i \in 1..Len(title) :
                      /\ title[i] = "<"
                      /\ SkipWhile(title, i + 1, NameChars) > i + 1
                      /\ SkipWhile(title, i + 1, NameChars) <= Len(title)
                      /\ title[SkipWhile(title, i + 1, NameChars)] = ">" }
    IN  IF starts = {} THEN NoGroup
        ELSE LET i == CHOOSE x \in starts : \A y \in starts : x <= y
             IN  [matched |-> TRUE,
                  group |-> SubSeq(title, i + 1, SkipWhile(title, i + 1, NameChars) - 1)]

\* title.match(/^([a-z0-9-]+)\s+element/i)
MatchElementTitle(title) ==
    IF NameThenWordAt(title, 1, NameChars, <<"e", "l", "e", "m", "e", "n", "t">>)
    THEN [matched |-> TRUE, group |-> SubSeq(title, 1, SkipWhile(title, 1, NameChars) - 1)]
    ELSE NoGroup

\* title.match(/([a-z-]+)\s+attribute/i)
MatchAttributeTitle(title) ==
    LET starts == { i \in 1..Len(title) :
                      NameThenWordAt(title, i, AttrNameChars, <<"a", "t", "t", "r", "i", "b", "u", "t", "e">>) }
    IN  IF starts = {} THEN NoGroup
        ELSE LET i == CHOOSE x \in starts : \A y \in starts : x <= y
             IN  [matched |-> TRUE,
                  group |-> SubSeq(title, i, SkipWhile(title, i, AttrNameChars) - 1)]

\* feature.keywords.split(',').map((k) => k.trim().toLowerCase()), behind
\* the guard `if (feature.keywords)`, which null and '' both fail.
KeywordsOf(f) ==
    IF f.keywords.isNull \/ f.keywords.str = <<>> THEN <<>>
    ELSE LET parts == Split(f.keywords.str, ",")
         IN  [i \in 1..Len(parts) |-> ToLowerCase(Trim(parts[i]))]

\* A keyword registration that replaces an entry already present.
RegisterKeywordOverwriting(map, keyword, f, singleWord) ==
    IF keyword # <<>> /\ (singleWord => ~Includes(keyword, <<" ">>))
    THEN MapSet(map, keyword, f)
    ELSE map

\* A keyword registration that takes keywords of several words everywhere.
RegisterKeywordOfAnyWords(map, keyword, f, singleWord) ==
    IF keyword # <<>> /\ ~MapHas(map, keyword)
    THEN MapSet(map, keyword, f)
    ELSE map

\* if (keyword && [!keyword.includes(' ') &&] !map.has(keyword)) map.set(keyword, feature)
RegisterKeyword(map, keyword, f, singleWord) ==
    IF /\ keyword # <<>>
       /\ (singleWord => ~Includes(keyword, <<" ">>))
       /\ ~MapHas(map, keyword)
    THEN MapSet(map, keyword, f)
    ELSE map

RECURSIVE RegisterKeywords(_, _, _, _)
RegisterKeywords(map, keywords, f, singleWord) ==
    IF keywords = <<>> THEN map
    ELSE RegisterKeywords(RegisterKeyword(map, Head(keywords), f, singleWord),
                          Tail(keywords), f, singleWord)

\* A loop body of buildCssPropertyMap that skips no feature.
RegisterCssOfAnyCategory(map, f) ==
    LET propertyName == ReplaceAllChars(StripPrefix(f.slug, <<"c", "s", "s", "-">>), "-", "-")
        titleLower == ToLowerCase(f.title)
        m1 == MapSet(map, propertyName, f)
        m2 == IF titleLower # propertyName THEN MapSet(m1, titleLower, f) ELSE m1
    IN  RegisterKeywords(m2, KeywordsOf(f), f, FALSE)

\* The loop body of buildCssPropertyMap.
RegisterCss(map, f) ==
    IF f.category # "css" THEN map
    ELSE LET propertyName == ReplaceAllChars(StripPrefix(f.slug, <<"c", "s", "s", "-">>), "-", "-")
             titleLower == ToLowerCase(f.title)
             m1 == MapSet(map, propertyName, f)
             m2 == IF titleLower # propertyName THEN MapSet(m1, titleLower, f) ELSE m1
         IN  RegisterKeywords(m2, KeywordsOf(f), f, FALSE)

\* The loop body of buildHtmlElementMap.
RegisterElement(map, f) ==
    IF f.category # "html" THEN map
    ELSE LET slugElement == ToLowerCase(StripPrefix(f.slug, <<"h", "t", "m", "l", "-">>))
             titleMatch == MatchBracketedTag(f.title)
             elementMatch == MatchElementTitle(f.title)
             m1 == IF slugElement # <<>> /\ ~Includes(slugElement, <<"a", "t", "t", "r", "i", "b", "u", "t", "e">>)
                   THEN MapSet(map, slugElement, f) ELSE map
             m2 == IF titleMatch.matched
                   THEN MapSet(m1, ToLowerCase(titleMatch.group), f) ELSE m1
             m3 == IF elementMatch.matched
                   THEN MapSet(m2, ToLowerCase(elementMatch.group), f) ELSE m2
         IN  RegisterKeywords(m3, KeywordsOf(f), f, TRUE)

\* The loop body of buildHtmlAttributeMap.
RegisterAttribute(map, f) ==
    IF f.category # "html" THEN map
    ELSE LET attrMatch == MatchAttributeTitle(f.title)
             m1 == IF attrMatch.matched
                   THEN MapSet(map, ToLowerCase(attrMatch.group), f) ELSE map
             m2 == IF Includes(f.slug, <<"a", "t", "t", "r", "i", "b", "u", "t", "e">>)
                   THEN MapSet(m1, StripSuffix(StripPrefix(f.slug, <<"h", "t", "m", "l", "-">>),
                                               <<"-", "a", "t", "t", "r", "i", "b", "u", "t", "e">>), f)
                   ELSE m1
         IN  RegisterKeywords(m2, KeywordsOf(f), f, TRUE)

Builders == {"css", "element", "attribute"}

Register(b, map, f) ==
    IF b = "css" THEN RegisterCss(map, f)
    ELSE IF b = "element" THEN RegisterElement(map, f)
    ELSE RegisterAttribute(map, f)

\* The map a builder returns for the first n features of a dataset.
RECURSIVE BuildMap(_, _, _)
BuildMap(b, features, n) ==
    IF n = 0 THEN EmptyMap ELSE Register(b, BuildMap(b, features, n - 1), features[n])

BuildCssPropertyMap(features) == BuildMap("css", features, Len(features))
BuildHtmlElementMap(features) == BuildMap("element", features, Len(features))
BuildHtmlAttributeMap(features) == BuildMap("attribute", features, Len(features))

IndexIdle ==
    /\ data = <<>>
    /\ builder = "css"
    /\ bi = 0
    /\ bmap = EmptyMap

\* One iteration of `for (const feature of features)` in buildCssPropertyMap.
CssMapStep ==
    /\ builder = "css"
    /\ bi < Len(data)
    /\ bmap' = RegisterCss(bmap, data[bi + 1])
    /\ bi' = bi + 1
    /\ UNCHANGED <<data, builder>>

\* One iteration of the loop of buildHtmlElementMap.
ElementMapStep ==
    /\ builder = "element"
    /\ bi < Len(data)
    /\ bmap' = RegisterElement(bmap, data[bi + 1])
    /\ bi' = bi + 1
    /\ UNCHANGED <<data, builder>>

\* One iteration of the loop of buildHtmlAttributeMap.
AttributeMapStep ==
    /\ builder = "attribute"
    /\ bi < Len(data)
    /\ bmap' = RegisterAttribute(bmap, data[bi + 1])
    /\ bi' = bi + 1
    /\ UNCHANGED <<data, builder>>

(***************************************************************************)
(* The markup feature extractor (feature-extractor.ts): its text scans.    *)
(***************************************************************************)
\* A JavaScript Set of strings is the sequence of its members in insertion
\* order; Set.prototype.add appends a member that is not there yet.
Members(set) == {set[i] : i \in 1..Len(set)}

SetAdd(set, x) == IF x \in Members(set) THEN set ELSE Append(set, x)

\* Index of the first position >= i of s whose character is in stop
\* (Len(s) + 1 when there is none): the greedy match of [^stop]* at i.
RECURSIVE SkipUntil(_, _, _)
SkipUntil(s, i, stop) ==
    IF i <= Len(s) /\ s[i] \notin stop THEN SkipUntil(s, i + 1, stop) ELSE i

Quotes == {"\"", "'"}

NoMatchAt == [found |-> FALSE, group |-> <<>>, end |-> 0]

\* The least member of a non-empty set of positions.
First(S) == CHOOSE x \in S : \A y \in S : x <= y

\* /style\s*=\s*["']([^"']+)["']/gi matched at position i.
InlineStyleAt(text, i) ==
    LET eq == SkipWhile(text, i + 5, Whitespace)
        open == SkipWhile(text, eq + 1, Whitespace)
        close == SkipUntil(text, open + 1, Quotes)
    IN  IF /\ LiteralAtNoCase(text, i, <<"s", "t", "y", "l", "e">>)
           /\ eq <= Len(text) /\ text[eq] = "="
           /\ open <= Len(text) /\ text[open] \in Quotes
           /\ close > open + 1
           /\ close <= Len(text)
        THEN [found |-> TRUE, group |-> SubSeq(text, open + 1, close - 1), end |-> close + 1]
        ELSE NoMatchAt

\* inlineStyleRegex.exec(html) with lastIndex = pos - 1: the leftmost match.
NextInlineStyle(text, pos) ==
    LET starts == { i \in pos..Len(text) : InlineStyleAt(text, i).found }
    IN  IF starts = {} THEN NoMatchAt ELSE InlineStyleAt(text, First(starts))

\* /<style[^>]*>([\s\S]*?)<\/style>/gi matched at position i.
StyleTagAt(text, i) ==
    LET gt == SkipUntil(text, i + 6, {">"})
        closes == { k \in (gt + 1)..Len(text) :
                      LiteralAtNoCase(text, k, <<"<", "/", "s", "t", "y", "l", "e", ">">>) }
    IN  IF /\ LiteralAtNoCase(text, i, <<"<", "s", "t", "y", "l", "e">>)
           /\ gt <= Len(text)
           /\ closes # {}
        THEN [found |-> TRUE, group |-> SubSeq(text, gt + 1, First(closes) - 1),
              end |-> First(closes) + 8]
        ELSE NoMatchAt

\* styleTagRegex.exec(html) with lastIndex = pos - 1.
NextStyleTag(text, pos) ==
    LET starts == { i \in pos..Len(text) : StyleTagAt(text, i).found }
    IN  IF starts = {} THEN NoMatchAt ELSE StyleTagAt(text, First(starts))

\* /<([a-z][a-z0-9-]*)/gi matched at position i.
TagAt(text, i) ==
    IF text[i] = "<" /\ i < Len(text) /\ text[i + 1] \in Letters
    THEN [found |-> TRUE,
          group |-> SubSeq(text, i + 1, SkipWhile(text, i + 2, NameChars) - 1),
          end |-> SkipWhile(text, i + 2, NameChars)]
    ELSE NoMatchAt

\* extractHtmlElements: the loop of tagRegex.exec from position pos on.
RECURSIVE ElementsFrom(_, _, _)
ElementsFrom(text, pos, elements) ==
    LET starts == { i \in pos..Len(text) : TagAt(text, i).found }
    IN  IF starts = {} THEN elements
        ELSE LET m == TagAt(text, First(starts))
             IN  ElementsFrom(text, m.end, SetAdd(elements, ToLowerCase(m.group)))

ExtractHtmlElements(text) == ElementsFrom(text, 1, <<>>)

\* /\s([a-z][a-z0-9-]*)\s*=/gi matched at position i.
AttributeAt(text, i) ==
    LET nameEnd == SkipWhile(text, i + 2, NameChars)
        eq == SkipWhile(text, nameEnd, Whitespace)
    IN  IF /\ text[i] \in Whitespace
           /\ i < Len(text) /\ text[i + 1] \in Letters
           /\ eq <= Len(text) /\ text[eq] = "="
        THEN [found |-> TRUE, group |-> SubSeq(text, i + 1, nameEnd - 1), end |-> eq + 1]
        ELSE NoMatchAt

\* extractHtmlAttributes: the loop of attrRegex.exec from position pos on.
RECURSIVE AttributesFrom(_, _, _)
AttributesFrom(text, pos, attributes) ==
    LET starts == { i \in pos..Len(text) : AttributeAt(text, i).found }
    IN  IF starts = {} THEN attributes
        ELSE LET m == AttributeAt(text, First(starts))
             IN  AttributesFrom(text, m.end, SetAdd(attributes, ToLowerCase(m.group)))

ExtractHtmlAttributes(text) == AttributesFrom(text, 1, <<>>)

(***************************************************************************)
(* The extractor: declarations and at-rules of a parsed tree.              *)
(***************************************************************************)
\* The alternatives of /^-(?:webkit|moz|ms|o)-/, in the order of the source.
VendorPrefixes == << <<"-", "w", "e", "b", "k", "i", "t", "-">>, <<"-", "m", "o", "z", "-">>, <<"-", "m", "s", "-">>, <<"-", "o", "-">> >>

\* A prefix stripping that knows -webkit- only.
UnprefixedWebkitOnly(prop) == StripPrefix(prop, VendorPrefixes[1])

\* A prefix stripping that takes every leading hyphen for a prefix.
UnprefixedOfEveryHyphen(prop) == SubSeq(prop, SkipWhile(prop, 1, {"-"}), Len(prop))

\* prop.replace(/^-(?:webkit|moz|ms|o)-/, '')
Unprefixed(prop) ==
    LET hits == { k \in 1..Len(VendorPrefixes) : StartsWith(prop, VendorPrefixes[k]) }
    IN  IF hits = {} THEN prop ELSE StripPrefix(prop, VendorPrefixes[First(hits)])

\* word\s*\( somewhere in value: the patterns /calc\s*\(/i and the like.
ContainsCall(value, word) ==
    \E i \in 1..Len(value) :
        /\ LiteralAtNoCase(value, i, word)
        /\ SkipWhile(value, i + Len(word), Whitespace) <= Len(value)
        /\ value[SkipWhile(value, i + Len(word), Whitespace)] = "("

ContainsWord(value, word) == Includes(ToLowerCase(value), word)

\* The catalogue cssFeatures of extractValueFeatures, in its order: the
\* feature name, its word, and whether the pattern asks for "(" after it.
ValueFeatures ==
    << [feature |-> <<"l", "i", "n", "e", "a", "r", "-", "g", "r", "a", "d", "i", "e", "n", "t">>,
        word |-> <<"l", "i", "n", "e", "a", "r", "-", "g", "r", "a", "d", "i", "e", "n", "t">>, call |-> FALSE],
       [feature |-> <<"r", "a", "d", "i", "a", "l", "-", "g", "r", "a", "d", "i", "e", "n", "t">>,
        word |-> <<"r", "a", "d", "i", "a", "l", "-", "g", "r", "a", "d", "i", "e", "n", "t">>, call |-> FALSE],
       [feature |-> <<"c", "o", "n", "i", "c", "-", "g", "r", "a", "d", "i", "e", "n", "t">>,
        word |-> <<"c", "o", "n", "i", "c", "-", "g", "r", "a", "d", "i", "e", "n", "t">>, call |-> FALSE],
       [feature |-> <<"r", "e", "p", "e", "a", "t", "i", "n", "g", "-", "l", "i", "n", "e", "a", "r", "-", "g", "r", "a", "d", "i", "e", "n", "t">>,
        word |-> <<"r", "e", "p", "e", "a", "t", "i", "n", "g", "-", "l", "i", "n", "e", "a", "r", "-", "g", "r", "a", "d", "i", "e", "n", "t">>, call |-> FALSE],
       [feature |-> <<"r", "e", "p", "e", "a", "t", "i", "n", "g", "-", "r", "a", "d", "i", "a", "l", "-", "g", "r", "a", "d", "i", "e", "n", "t">>,
        word |-> <<"r", "e", "p", "e", "a", "t", "i", "n", "g", "-", "r", "a", "d", "i", "a", "l", "-", "g", "r", "a", "d", "i", "e", "n", "t">>, call |-> FALSE],
       [feature |-> <<"c", "a", "l", "c">>, word |-> <<"c", "a", "l", "c">>, call |-> TRUE],
       [feature |-> <<"c", "s", "s", " ", "v", "a", "r", "i", "a", "b", "l", "e", "s">>, word |-> <<"v", "a", "r">>, call |-> TRUE],
       [feature |-> <<"c", "l", "a", "m", "p">>, word |-> <<"c", "l", "a", "m", "p">>, call |-> TRUE],
       [feature |-> <<"m", "i", "n">>, word |-> <<"m", "i", "n">>, call |-> TRUE],
       [feature |-> <<"m", "a", "x">>, word |-> <<"m", "a", "x">>, call |-> TRUE],
       [feature |-> <<"f", "i", "t", "-", "c", "o", "n", "t", "e", "n", "t">>,
        word |-> <<"f", "i", "t", "-", "c", "o", "n", "t", "e", "n", "t">>, call |-> FALSE],
       [feature |-> <<"m", "i", "n", "-", "c", "o", "n", "t", "e", "n", "t">>,
        word |-> <<"m", "i", "n", "-", "c", "o", "n", "t", "e", "n", "t">>, call |-> FALSE],
       [feature |-> <<"m", "a", "x", "-", "c", "o", "n", "t", "e", "n", "t">>,
        word |-> <<"m", "a", "x", "-", "c", "o", "n", "t", "e", "n", "t">>, call |-> FALSE] >>

\* A loop over the catalogue that ends at the first pattern that matches.
RECURSIVE ValueFeaturesUntilHit(_, _, _)
ValueFeaturesUntilHit(value, n, properties) ==
    IF n > Len(ValueFeatures) THEN properties
    ELSE LET e == ValueFeatures[n]
             hit == IF e.call THEN ContainsCall(value, e.word) ELSE ContainsWord(value, e.word)
         IN  IF hit THEN SetAdd(properties, e.feature)
             ELSE ValueFeaturesUntilHit(value, n + 1, properties)

\* extractValueFeatures: the catalogue entries from the n-th on.
RECURSIVE ValueFeaturesFrom(_, _, _)
ValueFeaturesFrom(value, n, properties) ==
    IF n > Len(ValueFeatures) THEN properties
    ELSE LET e == ValueFeatures[n]
             hit == IF e.call THEN ContainsCall(value, e.word) ELSE ContainsWord(value, e.word)
         IN  ValueFeaturesFrom(value, n + 1,
                               IF hit THEN SetAdd(properties, e.feature) ELSE properties)

ExtractValueFeatures(value, properties) == ValueFeaturesFrom(value, 1, properties)

\* The callback of root.walk in extractPropertiesFromAst, on a declaration:
\* the property set afterwards.
PropertiesAfterDecl(decl, properties) ==
    LET prop == ToLowerCase(decl.prop)
        isVendorProperty == StartsWith(prop, <<"-">>)
        added == IF isVendorProperty THEN SetAdd(properties, Unprefixed(prop))
                 ELSE SetAdd(properties, prop)
    IN  ExtractValueFeatures(ToLowerCase(decl.value), added)

\* The same callback: the per-property value collection afterwards.
ValuesAfterDecl(decl, values) ==
    LET prop == ToLowerCase(decl.prop)
        value == ToLowerCase(decl.value)
    IN  IF MapHas(values, prop)
        THEN MapSet(values, prop, values[prop] \cup {value})
        ELSE MapSet(values, prop, {value})

\* The characters that may end a media feature name: (?::|,|\))
MediaFeatureEnds == {":", ",", ")"}

\* A media feature pattern that asks for ":" after the name.
MediaFeatureAtColonOnly(params, i) ==
    LET nameStart == SkipWhile(params, i + 1, Whitespace)
        nameEnd == SkipWhile(params, nameStart, AttrNameChars)
        stop == SkipWhile(params, nameEnd, Whitespace)
    IN  IF /\ params[i] = "("
           /\ nameEnd > nameStart
           /\ stop <= Len(params) /\ params[stop] = ":"
        THEN [found |-> TRUE, group |-> SubSeq(params, nameStart, nameEnd - 1), end |-> stop + 1]
        ELSE NoMatchAt

\* /\(\s*([a-z-]+)\s*(?::|,|\))/gi matched at position i.
MediaFeatureAt(params, i) ==
    LET nameStart == SkipWhile(params, i + 1, Whitespace)
        nameEnd == SkipWhile(params, nameStart, AttrNameChars)
        stop == SkipWhile(params, nameEnd, Whitespace)
    IN  IF /\ params[i] = "("
           /\ nameEnd > nameStart
           /\ stop <= Len(params) /\ params[stop] \in MediaFeatureEnds
        THEN [found |-> TRUE, group |-> SubSeq(params, nameStart, nameEnd - 1), end |-> stop + 1]
        ELSE NoMatchAt

MediaEntry(name) == <<"@", "m", "e", "d", "i", "a", " ", "(">> \o name \o <<")">>

\* extractMediaFeatures: the loop of featureRegex.exec from position pos on.
RECURSIVE MediaFeaturesFrom(_, _, _)
MediaFeaturesFrom(params, pos, atRules) ==
    LET starts == { i \in pos..Len(params) : MediaFeatureAt(params, i).found }
    IN  IF starts = {} THEN atRules
        ELSE LET m == MediaFeatureAt(params, First(starts))
             IN  MediaFeaturesFrom(params, m.end,
                                   SetAdd(atRules, MediaEntry(ToLowerCase(m.group))))

ExtractMediaFeatures(params, atRules) == MediaFeaturesFrom(params, 1, atRules)

\* The callback of root.walk in extractAtRulesFromAst, on an at-rule.
AtRulesAfterAtRule(rule, atRules) ==
    LET named == SetAdd(atRules, <<"@">> \o ToLowerCase(rule.name))
        media == IF ToLowerCase(rule.name) = <<"m", "e", "d", "i", "a">> /\ rule.params # <<>>
                 THEN ExtractMediaFeatures(rule.params, named)
                 ELSE named
    IN  IF ToLowerCase(rule.name) = <<"s", "u", "p", "p", "o", "r", "t", "s">>
        THEN SetAdd(media, <<"@", "s", "u", "p", "p", "o", "r", "t", "s">>)
        ELSE media

(***************************************************************************)
(* The extractor: the lenient fallback.                                    *)
(***************************************************************************)
\* css.replace(/\/\*[\s\S]*?\*\//g, '')
RECURSIVE StripComments(_)
StripComments(css) ==
    LET opens == { i \in 1..Len(css) :
                     /\ LiteralAt(css, i, <<"/", "*">>)
                     /\ \E k \in (i + 2)..Len(css) : LiteralAt(css, k, <<"*", "/">>) }
    IN  IF opens = {} THEN css
        ELSE LET i == First(opens)
                 k == First({ j \in (i + 2)..Len(css) : LiteralAt(css, j, <<"*", "/">>) })
             IN  SubSeq(css, 1, i - 1) \o StripComments(SubSeq(css, k + 2, Len(css)))

\* /([a-z-]+)\s*:/gi matched at position i.
SimplePropertyAt(css, i) ==
    LET nameEnd == SkipWhile(css, i, AttrNameChars)
        colon == SkipWhile(css, nameEnd, Whitespace)
    IN  IF nameEnd > i /\ colon <= Len(css) /\ css[colon] = ":"
        THEN [found |-> TRUE, group |-> SubSeq(css, i, nameEnd - 1), end |-> colon + 1]
        ELSE NoMatchAt

RECURSIVE SimplePropertiesFrom(_, _, _)
SimplePropertiesFrom(css, pos, properties) ==
    LET starts == { i \in pos..Len(css) : SimplePropertyAt(css, i).found }
    IN  IF starts = {} THEN properties
        ELSE LET m == SimplePropertyAt(css, First(starts))
                 property == ToLowerCase(m.group)
             IN  SimplePropertiesFrom(css, m.end,
                     IF Len(property) > 1 /\ ~StartsWith(property, <<"-">>)
                     THEN SetAdd(properties, property) ELSE properties)

ExtractPropertiesSimple(css, properties) ==
    SimplePropertiesFrom(StripComments(css), 1, properties)

\* /@([a-z-]+)/gi matched at position i.
SimpleAtRuleAt(css, i) ==
    IF css[i] = "@" /\ SkipWhile(css, i + 1, AttrNameChars) > i + 1
    THEN [found |-> TRUE,
          group |-> SubSeq(css, i + 1, SkipWhile(css, i + 1, AttrNameChars) - 1),
          end |-> SkipWhile(css, i + 1, AttrNameChars)]
    ELSE NoMatchAt

RECURSIVE SimpleAtRulesFrom(_, _, _)
SimpleAtRulesFrom(css, pos, atRules) ==
    LET starts == { i \in pos..Len(css) : SimpleAtRuleAt(css, i).found }
    IN  IF starts = {} THEN atRules
        ELSE LET m == SimpleAtRuleAt(css, First(starts))
             IN  SimpleAtRulesFrom(css, m.end,
                                   SetAdd(atRules, <<"@">> \o ToLowerCase(m.group)))

ExtractAtRulesSimple(css, atRules) == SimpleAtRulesFrom(css, 1, atRules)

(***************************************************************************)
(* The extractor as a machine: extractFeatures, its two loops over the     *)
(* markup, the walks of a parsed tree, the fallback.                       *)
(***************************************************************************)
\* `* { ${styleContent} }`
Wrapped(styleContent) == <<"*", " ", "{", " ">> \o styleContent \o <<" ", "}">>

Rule == [type |-> "rule", prop |-> <<>>, value |-> <<>>, name |-> <<>>, params |-> <<>>]
Decl(prop, value) ==
    [type |-> "decl", prop |-> prop, value |-> value, name |-> <<>>, params |-> <<>>]
AtRule(name, params) ==
    [type |-> "atrule", prop |-> <<>>, value |-> <<>>, name |-> name, params |-> params]
Comment == [type |-> "comment", prop |-> <<>>, value |-> <<>>, name |-> <<>>, params |-> <<>>]

\* The style texts of the markup below.
CssPrefixed == <<"-", "o", "-", "a", ":", "b">>
CssCalc == <<"A", ":", "c", "a", "l", "c", "(", "1", ")">>
CssTwoPrefixes == <<"-", "w", "e", "b", "k", "i", "t", "-", "b", ":", "c", ";", "-", "M", "O", "Z", "-", "a", ":", "b">>
CssInlineMedia == <<"@", "m", "e", "d", "i", "a", " ", "(", "a", ")", "{", "b", ":", "c", "}">>
SheetMedia == <<"@", "m", "e", "d", "i", "a", " ", "x", " ", "a", "n", "d", " ", "(", "A", ":", "b", ")", "{", "p", "{", "-", "m", "s", "-", "a", ":", "c", "}", "}">>
SheetMediaList == <<"@", "M", "e", "d", "i", "a", " ", "(", "a", ")", ",", "(", " ", "b", "-", "c", " ", ")", " ", "a", "n", "d", " ", "(", "b", "2", ")", "{", "}">>
SheetSupports == <<"@", "s", "u", "p", "p", "o", "r", "t", "s", " ", "(", "a", ":", "b", ")", "{", "q", "{", "-", "-", "a", ":", "b", ";", "-", "o", "-", "-", "o", "-", "b", ":", "v", "a", "r", "(", "-", "-", "a", ")", "}", "}">>
SheetFontFace == <<"p", "{", "a", "b", ":", "c", "}", "@", "f", "o", "n", "t", "-", "f", "a", "c", "e", "{", "-", "o", "-", "b", ":", "d", "}">>
CssGradient == <<"a", "b", ":", "R", "e", "p", "e", "a", "t", "i", "n", "g", "-", "L", "i", "n", "e", "a", "r", "-", "G", "r", "a", "d", "i", "e", "n", "t", "(", "c", ")", ",", "M", "A", "X", " ", "(", "1", ")">>
CssUnknownPrefix == <<"-", "K", "H", "T", "M", "L", "-", "a", ":", "b", ";", "-", "-", "a", "b", ":", "c">>
SheetComment == <<"/", "*", "a", "b", ":", "c", "*", "/", "@", "x", "{", "c", "d", ":", "M", "I", "N", "(", "1", ")", "}">>

\* What postcss-safe-parser builds from each of these texts when it does
\* not throw: the nodes of the tree in the order root.walk visits them.
ParseTable ==
    { [css |-> Wrapped(CssPrefixed),
       nodes |-> <<Rule, Decl(<<"-", "o", "-", "a">>, <<"b">>)>>],
      [css |-> Wrapped(CssCalc),
       nodes |-> <<Rule, Decl(<<"A">>, <<"c", "a", "l", "c", "(", "1", ")">>)>>],
      [css |-> Wrapped(CssTwoPrefixes),
       nodes |-> <<Rule, Decl(<<"-", "w", "e", "b", "k", "i", "t", "-", "b">>, <<"c">>),
                   Decl(<<"-", "M", "O", "Z", "-", "a">>, <<"b">>)>>],
      [css |-> Wrapped(CssInlineMedia),
       nodes |-> <<Rule, AtRule(<<"m", "e", "d", "i", "a">>, <<"(", "a", ")">>),
                   Decl(<<"b">>, <<"c">>)>>],
      [css |-> SheetMedia,
       nodes |-> <<AtRule(<<"m", "e", "d", "i", "a">>, <<"x", " ", "a", "n", "d", " ", "(", "A", ":", "b", ")">>), Rule,
                   Decl(<<"-", "m", "s", "-", "a">>, <<"c">>)>>],
      [css |-> SheetMediaList,
       nodes |-> <<AtRule(<<"M", "e", "d", "i", "a">>, <<"(", "a", ")", ",", "(", " ", "b", "-", "c", " ", ")", " ", "a", "n", "d", " ", "(", "b", "2", ")">>)>>],
      [css |-> SheetSupports,
       nodes |-> <<AtRule(<<"s", "u", "p", "p", "o", "r", "t", "s">>, <<"(", "a", ":", "b", ")">>), Rule,
                   Decl(<<"-", "-", "a">>, <<"b">>),
                   Decl(<<"-", "o", "-", "-", "o", "-", "b">>, <<"v", "a", "r", "(", "-", "-", "a", ")">>)>>],
      [css |-> SheetFontFace,
       nodes |-> <<Rule, Decl(<<"a", "b">>, <<"c">>),
                   AtRule(<<"f", "o", "n", "t", "-", "f", "a", "c", "e">>, <<>>),
                   Decl(<<"-", "o", "-", "b">>, <<"d">>)>>],
      [css |-> Wrapped(CssGradient),
       nodes |-> <<Rule, Decl(<<"a", "b">>, <<"R", "e", "p", "e", "a", "t", "i", "n", "g", "-", "L", "i", "n", "e", "a", "r", "-", "G", "r", "a", "d", "i", "e", "n", "t", "(", "c", ")", ",", "M", "A", "X", " ", "(", "1", ")">>)>>],
      [css |-> Wrapped(CssUnknownPrefix),
       nodes |-> <<Rule, Decl(<<"-", "K", "H", "T", "M", "L", "-", "a">>, <<"b">>),
                   Decl(<<"-", "-", "a", "b">>, <<"c">>)>>],
      [css |-> SheetComment,
       nodes |-> <<Comment, AtRule(<<"x">>, <<>>),
                   Decl(<<"c", "d">>, <<"M", "I", "N", "(", "1", ")">>)>>] }

SafeParser(css) ==
    IF \E t \in ParseTable : t.css = css
    THEN (CHOOSE t \in ParseTable : t.css = css).nodes
    ELSE <<>>

\* A catch block that lets the exception go on.
InlineRethrow(styleContent, properties) ==
    [raised |-> TRUE, properties |-> properties]

\* catch { extractPropertiesSimple(styleContent, properties); }
InlineCatch(styleContent, properties) ==
    [raised |-> FALSE, properties |-> ExtractPropertiesSimple(styleContent, properties)]

\* A catch block that recovers the properties only.
StyleTagCatchPropertiesOnly(cssContent, properties, atRules) ==
    [raised |-> FALSE,
     properties |-> ExtractPropertiesSimple(cssContent, properties),
     atRules |-> atRules]

\* catch { extractPropertiesSimple(...); extractAtRulesSimple(...); }
StyleTagCatch(cssContent, properties, atRules) ==
    [raised |-> FALSE,
     properties |-> ExtractPropertiesSimple(cssContent, properties),
     atRules |-> ExtractAtRulesSimple(cssContent, atRules)]

\* The sets a call has kept from the call before it.
EntryKeeping(properties, atRules, values) ==
    [cssProperties |-> properties, cssAtRules |-> atRules, cssValues |-> values]

\* The three `new` of extractFeatures: whatever an earlier call built, this
\* call starts from empty collections.
Entry(properties, atRules, values) ==
    [cssProperties |-> <<>>, cssAtRules |-> <<>>, cssValues |-> EmptyMap]

\* The state on entry of extractFeatures(text).
Enter(text) ==
    /\ html = text
    /\ phase = "inline"
    /\ lastIndex = 0
    /\ root = <<>>
    /\ walk = "none"
    /\ ni = 0
    /\ cssProperties = Entry(<<>>, <<>>, EmptyMap).cssProperties
    /\ cssAtRules = Entry(<<>>, <<>>, EmptyMap).cssAtRules
    /\ cssValues = Entry(<<>>, <<>>, EmptyMap).cssValues
    /\ htmlAttributes = <<>>
    /\ htmlElements = <<>>
    /\ raised = FALSE
    /\ calls = 1
    /\ firstResult = EmptyMap

\* No call of extractFeatures is under way or was made.
ExtractIdle ==
    /\ html = <<>>
    /\ throwsOn = {}
    /\ phase = "done"
    /\ lastIndex = 0
    /\ root = <<>>
    /\ walk = "none"
    /\ ni = 0
    /\ cssProperties = <<>>
    /\ cssAtRules = <<>>
    /\ cssValues = EmptyMap
    /\ htmlAttributes = <<>>
    /\ htmlElements = <<>>
    /\ raised = FALSE
    /\ calls = 0
    /\ firstResult = EmptyMap

\* extractInlineStyles: an iteration whose safeParser call returns a tree.
InlineStyleParsed ==
    /\ phase = "inline" /\ walk = "none"
    /\ LET m == NextInlineStyle(html, lastIndex + 1)
       IN  /\ m.found
           /\ Wrapped(m.group) \notin throwsOn
           /\ root' = SafeParser(Wrapped(m.group))
           /\ lastIndex' = m.end - 1
    /\ walk' = "properties"
    /\ ni' = 0
    /\ UNCHANGED <<html, throwsOn, phase, cssProperties, cssAtRules, cssValues,
                   htmlAttributes, htmlElements, raised, calls, firstResult>>

\* extractInlineStyles: an iteration whose safeParser call throws.
InlineStyleFallback ==
    /\ phase = "inline" /\ walk = "none"
    /\ LET m == NextInlineStyle(html, lastIndex + 1)
           caught == InlineCatch(m.group, cssProperties)
       IN  /\ m.found
           /\ Wrapped(m.group) \in throwsOn
           /\ cssProperties' = caught.properties
           /\ raised' = caught.raised
           /\ phase' = IF caught.raised THEN "raised" ELSE phase
           /\ lastIndex' = m.end - 1
    /\ UNCHANGED <<html, throwsOn, root, walk, ni, cssAtRules, cssValues,
                   htmlAttributes, htmlElements, calls, firstResult>>

\* extractInlineStyles: exec returns null; extractStyleTags begins.
InlineStylesDone ==
    /\ phase = "inline" /\ walk = "none"
    /\ ~NextInlineStyle(html, lastIndex + 1).found
    /\ phase' = "tags"
    /\ lastIndex' = 0
    /\ UNCHANGED <<html, throwsOn, root, walk, ni, cssProperties, cssAtRules, cssValues,
                   htmlAttributes, htmlElements, raised, calls, firstResult>>

\* extractStyleTags: an iteration whose safeParser call returns a tree.
StyleTagParsed ==
    /\ phase = "tags" /\ walk = "none"
    /\ LET m == NextStyleTag(html, lastIndex + 1)
       IN  /\ m.found
           /\ m.group \notin throwsOn
           /\ root' = SafeParser(m.group)
           /\ lastIndex' = m.end - 1
    /\ walk' = "properties"
    /\ ni' = 0
    /\ UNCHANGED <<html, throwsOn, phase, cssProperties, cssAtRules, cssValues,
                   htmlAttributes, htmlElements, raised, calls, firstResult>>

\* extractStyleTags: an iteration whose safeParser call throws.
StyleTagFallback ==
    /\ phase = "tags" /\ walk = "none"
    /\ LET m == NextStyleTag(html, lastIndex + 1)
           caught == StyleTagCatch(m.group, cssProperties, cssAtRules)
       IN  /\ m.found
           /\ m.group \in throwsOn
           /\ cssProperties' = caught.properties
           /\ cssAtRules' = caught.atRules
           /\ raised' = caught.raised
           /\ phase' = IF caught.raised THEN "raised" ELSE phase
           /\ lastIndex' = m.end - 1
    /\ UNCHANGED <<html, throwsOn, root, walk, ni, cssValues,
                   htmlAttributes, htmlElements, calls, firstResult>>

\* extractPropertiesFromAst: the walk visits a declaration.
WalkDeclaration ==
    /\ walk = "properties"
    /\ ni < Len(root)
    /\ root[ni + 1].type = "decl"
    /\ cssProperties' = PropertiesAfterDecl(root[ni + 1], cssProperties)
    /\ cssValues' = ValuesAfterDecl(root[ni + 1], cssValues)
    /\ ni' = ni + 1
    /\ UNCHANGED <<html, throwsOn, phase, lastIndex, root, walk, cssAtRules,
                   htmlAttributes, htmlElements, raised, calls, firstResult>>

\* extractPropertiesFromAst: the walk visits a node that is no declaration.
WalkPastProperties ==
    /\ walk = "properties"
    /\ ni < Len(root)
    /\ root[ni + 1].type # "decl"
    /\ ni' = ni + 1
    /\ UNCHANGED <<html, throwsOn, phase, lastIndex, root, walk, cssProperties, cssAtRules,
                   cssValues, htmlAttributes, htmlElements, raised, calls, firstResult>>

\* extractInlineStyles: extractPropertiesFromAst returns, the iteration ends.
EndInlineWalk ==
    /\ phase = "inline"
    /\ walk = "properties"
    /\ ni = Len(root)
    /\ walk' = "none"
    /\ root' = <<>>
    /\ ni' = 0
    /\ UNCHANGED <<html, throwsOn, phase, lastIndex, cssProperties, cssAtRules,
                   cssValues, htmlAttributes, htmlElements, raised, calls, firstResult>>

\* extractStyleTags: extractPropertiesFromAst returns, extractAtRulesFromAst
\* begins on the same tree.
StartAtRulesWalk ==
    /\ phase = "tags"
    /\ walk = "properties"
    /\ ni = Len(root)
    /\ walk' = "atRules"
    /\ ni' = 0
    /\ UNCHANGED <<html, throwsOn, phase, lastIndex, root, cssProperties, cssAtRules,
                   cssValues, htmlAttributes, htmlElements, raised, calls, firstResult>>

\* extractAtRulesFromAst: the walk visits an at-rule.
WalkAtRule ==
    /\ walk = "atRules"
    /\ ni < Len(root)
    /\ root[ni + 1].type = "atrule"
    /\ cssAtRules' = AtRulesAfterAtRule(root[ni + 1], cssAtRules)
    /\ ni' = ni + 1
    /\ UNCHANGED <<html, throwsOn, phase, lastIndex, root, walk, cssProperties,
                   cssValues, htmlAttributes, htmlElements, raised, calls, firstResult>>

\* extractAtRulesFromAst: the walk visits a node that is no at-rule.
WalkPastAtRules ==
    /\ walk = "atRules"
    /\ ni < Len(root)
    /\ root[ni + 1].type # "atrule"
    /\ ni' = ni + 1
    /\ UNCHANGED <<html, throwsOn, phase, lastIndex, root, walk, cssProperties, cssAtRules,
                   cssValues, htmlAttributes, htmlElements, raised, calls, firstResult>>

\* extractStyleTags: extractAtRulesFromAst returns, the iteration ends.
EndAtRulesWalk ==
    /\ walk = "atRules"
    /\ ni = Len(root)
    /\ walk' = "none"
    /\ root' = <<>>
    /\ ni' = 0
    /\ UNCHANGED <<html, throwsOn, phase, lastIndex, cssProperties, cssAtRules,
                   cssValues, htmlAttributes, htmlElements, raised, calls, firstResult>>

\* extractStyleTags: exec returns null; extractFeatures builds its result.
Return ==
    /\ phase = "tags" /\ walk = "none"
    /\ ~NextStyleTag(html, lastIndex + 1).found
    /\ htmlAttributes' = ExtractHtmlAttributes(html)
    /\ htmlElements' = ExtractHtmlElements(html)
    /\ phase' = "done"
    /\ lastIndex' = 0
    /\ UNCHANGED <<html, throwsOn, root, walk, ni, cssProperties, cssAtRules, cssValues,
                   raised, calls, firstResult>>

\* The four sets extractFeatures has returned.
Returned ==
    [cssAtRules |-> Members(cssAtRules), cssProperties |-> Members(cssProperties),
     htmlAttributes |-> Members(htmlAttributes), htmlElements |-> Members(htmlElements)]

(***************************************************************************)
(* fetchCanIEmailData and the module-level cachedData.                     *)
(***************************************************************************)
DAY_IN_MS == 86400

MaxCallers == 2
MaxDays == 2
MaxPublished == 2

Callers == 1..MaxCallers

\* JSON values: strings, arrays, and objects as their entries in order.
Str(s) == [kind |-> "string", str |-> s, entries |-> <<>>]
Arr(items) == [kind |-> "array", str |-> <<>>, entries |-> items]
Obj(entries) == [kind |-> "object", str |-> <<>>, entries |-> entries]

\* `let cachedData` before any assignment.
Undefined == [kind |-> "undefined", str |-> <<>>, entries |-> <<>>]

ToUpperChar(c) ==
    IF \E i \in 1..Len(LowerCase) : LowerCase[i] = c
    THEN UpperCase[CHOOSE i \in 1..Len(LowerCase) : LowerCase[i] = c]
    ELSE c

Separators == {"_", "-", ".", " "}

\* camelcase(key) for a key in lower case: the separators go, the character
\* after a run of separators inside the key is uppercased.
RECURSIVE CamelCaseFrom(_, _, _)
CamelCaseFrom(key, i, out) ==
    IF i > Len(key) THEN out
    ELSE IF key[i] \in Separators THEN CamelCaseFrom(key, i + 1, out)
    ELSE IF i > 1 /\ key[i - 1] \in Separators /\ out # <<>>
    THEN CamelCaseFrom(key, i + 1, Append(out, ToUpperChar(key[i])))
    ELSE CamelCaseFrom(key, i + 1, Append(out, key[i]))

CamelCase(key) == CamelCaseFrom(key, 1, <<>>)

\* camelcaseKeys(response, { deep: true })
RECURSIVE CamelcaseKeys(_)
CamelcaseKeys(v) ==
    IF v.kind = "object"
    THEN Obj([i \in 1..Len(v.entries) |->
                [key |-> CamelCase(v.entries[i].key),
                 value |-> CamelcaseKeys(v.entries[i].value)]])
    ELSE IF v.kind = "array"
    THEN Arr([i \in 1..Len(v.entries) |-> CamelcaseKeys(v.entries[i])])
    ELSE v

\* The n-th dataset caniemail.com publishes, as data.json has it.
Published(n) ==
    Obj(<< [key |-> <<"a", "p", "i", "_", "v", "e", "r", "s", "i", "o", "n">>, value |-> Str(<<"1", ".", "0", ".", "4">>)],
           [key |-> <<"l", "a", "s", "t", "_", "u", "p", "d", "a", "t", "e", "_", "d", "a", "t", "e">>, value |-> Str(<< <<"1", "2", "3", "4", "5", "6", "7", "8", "9">>[n] >>)],
           [key |-> <<"d", "a", "t", "a">>,
            value |-> Arr(<< Obj(<< [key |-> <<"s", "l", "u", "g">>, value |-> Str(<<"c", "s", "s", "-", "a">>)],
                                    [key |-> <<"n", "o", "t", "e", "s", "_", "b", "y", "_", "n", "u", "m">>,
                                     value |-> Obj(<< [key |-> <<"1">>, value |-> Str(<<"x">>)] >>)],
                                    [key |-> <<"s", "t", "a", "t", "s">>,
                                     value |-> Obj(<< [key |-> <<"a", "p", "p", "l", "e", "-", "m", "a", "i", "l">>,
                                                       value |-> Obj(<< [key |-> <<"i", "o", "s">>,
                                                                         value |-> Obj(<< [key |-> <<"1", "0", ".", "3">>,
                                                                                           value |-> Str(<<"y">>)] >>)] >>)] >>)] >>) >>)] >>)

Idle == [pc |-> "idle", got |-> Undefined]

\* fetchCanIEmailData is not called.
FetchIdle ==
    /\ cachedData = Undefined
    /\ now = 0
    /\ cachedAt = 0
    /\ upstream = 1
    /\ fetchers = [c \in Callers |-> Idle]

\* A caller calls fetchCanIEmailData and cachedData is set: it is returned.
CallCached(c) ==
    /\ fetchers[c].pc # "fetching"
    /\ cachedData # Undefined
    /\ fetchers' = [fetchers EXCEPT ![c] = [pc |-> "returned", got |-> cachedData]]
    /\ UNCHANGED <<cachedData, now, cachedAt, upstream>>

\* A caller calls fetchCanIEmailData and cachedData is not set: the request
\* is sent and the call awaits the response.
CallFetch(c) ==
    /\ fetchers[c].pc # "fetching"
    /\ cachedData = Undefined
    /\ fetchers' = [fetchers EXCEPT ![c] = [pc |-> "fetching", got |-> Undefined]]
    /\ UNCHANGED <<cachedData, now, cachedAt, upstream>>

\* A response that is cached only when cachedData is not set yet.
RespondKeepingFirst(c) ==
    /\ fetchers[c].pc = "fetching"
    /\ cachedData' = IF cachedData = Undefined THEN CamelcaseKeys(Published(upstream))
                     ELSE cachedData
    /\ cachedAt' = IF cachedData = Undefined THEN now ELSE cachedAt
    /\ fetchers' = [fetchers EXCEPT ![c] = [pc |-> "returned",
                                            got |-> CamelcaseKeys(Published(upstream))]]
    /\ UNCHANGED <<now, upstream>>

\* The response arrives: cachedData is assigned and returned.
Respond(c) ==
    /\ fetchers[c].pc = "fetching"
    /\ cachedData' = CamelcaseKeys(Published(upstream))
    /\ cachedAt' = now
    /\ fetchers' = [fetchers EXCEPT ![c] = [pc |-> "returned", got |-> cachedData']]
    /\ UNCHANGED <<now, upstream>>

\* The request fails: ky throws, the call rejects.
RequestFails(c) ==
    /\ fetchers[c].pc = "fetching"
    /\ fetchers' = [fetchers EXCEPT ![c] = [pc |-> "rejected", got |-> Undefined]]
    /\ UNCHANGED <<cachedData, now, cachedAt, upstream>>

\* Half a day passes.
TimePasses ==
    /\ now < MaxDays * DAY_IN_MS
    /\ now' = now + (DAY_IN_MS \div 2)
    /\ UNCHANGED <<cachedData, cachedAt, upstream, fetchers>>

\* caniemail.com publishes another dataset.
Publish ==
    /\ upstream < MaxPublished
    /\ upstream' = upstream + 1
    /\ UNCHANGED <<cachedData, now, cachedAt, fetchers>>

(***************************************************************************)
(* useAsyncData: the hook of one mounted component, from its first render  *)
(* to the settling of the fetchFn call its effect makes.                   *)
(***************************************************************************)
MaxMounts == 2

Instances == 1..MaxMounts

Null == [isNull |-> TRUE, value |-> ""]
Value(v) == [isNull |-> FALSE, value |-> v]

DefaultErrorMessage == "Failed to load data. Please refresh the page."

\* The errorMessage parameter with its default.
ErrorMessageOf(arg) == IF arg = Null THEN DefaultErrorMessage ELSE arg.value

\* No component is mounted.
NotMounted ==
    [stage |-> "none", alive |-> FALSE, errorMessage |-> "", captured |-> "",
     data |-> Null, isLoading |-> FALSE, error |-> Null, fetchCalls |-> 0,
     outcome |-> "none", result |-> Null]

HookIdle ==
    /\ hooks = [m \in Instances |-> NotMounted]
    /\ mounts = 0

\* The first render: the three useState calls give the initial state and
\* the effect is scheduled with the arguments of this render.
MountHook(arg) ==
    /\ mounts < MaxMounts
    /\ mounts' = mounts + 1
    /\ hooks' = [hooks EXCEPT ![mounts + 1] =
                    [stage |-> "rendered", alive |-> TRUE,
                     errorMessage |-> ErrorMessageOf(arg),
                     captured |-> ErrorMessageOf(arg),
                     data |-> Null, isLoading |-> TRUE, error |-> Null,
                     fetchCalls |-> 0, outcome |-> "none", result |-> Null]]

\* The effect runs after the first commit: loadData sets isLoading, calls
\* fetchFn and awaits the promise it returns.
RunEffect(m) ==
    /\ hooks[m].stage = "rendered"
    /\ hooks' = [hooks EXCEPT ![m].stage = "awaiting",
                              ![m].isLoading = TRUE,
                              ![m].fetchCalls = @ + 1,
                              ![m].outcome = "pending"]
    /\ UNCHANGED mounts

\* The effect runs and fetchFn throws before it returns a promise: the
\* catch and finally blocks run at once.
RunEffectThrows(m) ==
    /\ hooks[m].stage = "rendered"
    /\ hooks' = [hooks EXCEPT ![m].stage = "settled",
                              ![m].fetchCalls = @ + 1,
                              ![m].outcome = "rejected",
                              ![m].error = Value(hooks[m].captured),
                              ![m].isLoading = FALSE]
    /\ UNCHANGED mounts

\* The promise resolves: setData(result); setError(null); finally
\* setIsLoading(false). The setters of an unmounted component do nothing.
FetchFnResolves(m, v) ==
    /\ hooks[m].stage = "awaiting"
    /\ hooks' = IF hooks[m].alive
                THEN [hooks EXCEPT ![m].stage = "settled",
                                   ![m].outcome = "resolved",
                                   ![m].result = v,
                                   ![m].data = v,
                                   ![m].error = Null,
                                   ![m].isLoading = FALSE]
                ELSE [hooks EXCEPT ![m].stage = "settled",
                                   ![m].outcome = "resolved",
                                   ![m].result = v]
    /\ UNCHANGED mounts

\* A rejection whose catch block is not followed by the finally block.
FetchFnRejectsWithoutFinally(m) ==
    /\ hooks[m].stage = "awaiting"
    /\ hooks' = IF hooks[m].alive
                THEN [hooks EXCEPT ![m].stage = "settled",
                                   ![m].outcome = "rejected",
                                   ![m].error = Value(hooks[m].captured)]
                ELSE [hooks EXCEPT ![m].stage = "settled",
                                   ![m].outcome = "rejected"]
    /\ UNCHANGED mounts

\* The promise rejects: setError(errorMessage); finally setIsLoading(false).
FetchFnRejects(m) ==
    /\ hooks[m].stage = "awaiting"
    /\ hooks' = IF hooks[m].alive
                THEN [hooks EXCEPT ![m].stage = "settled",
                                   ![m].outcome = "rejected",
                                   ![m].error = Value(hooks[m].captured),
                                   ![m].isLoading = FALSE]
                ELSE [hooks EXCEPT ![m].stage = "settled",
                                   ![m].outcome = "rejected"]
    /\ UNCHANGED mounts

\* The component renders again, with another errorMessage argument: the
\* state is kept and the effect, whose dependency list is empty, does not
\* run again.
Rerender(m, arg) ==
    /\ hooks[m].alive
    /\ hooks[m].stage # "rendered"
    /\ hooks[m].errorMessage # ErrorMessageOf(arg)
    /\ hooks' = [hooks EXCEPT ![m].errorMessage = ErrorMessageOf(arg)]
    /\ UNCHANGED mounts

\* The component unmounts; the effect has no cleanup.
Unmount(m) ==
    /\ hooks[m].alive
    /\ hooks[m].stage # "rendered"
    /\ hooks' = [hooks EXCEPT ![m].alive = FALSE]
    /\ UNCHANGED mounts

(***************************************************************************)
(* Inputs of the support summary: features whose stats record versions.    *)
(***************************************************************************)
\* Version keys: "9" and "13" are array-index keys, "10.3" is not.
VersionKeys == { <<"9">>, <<"1", "3">>, <<"1", "0", ".", "3">> }

\* Raw support codes: the four levels, a footnoted level, and malformed ones.
RawCodes == { <<"y">>, <<"a">>, <<"n">>, <<"u">>,
              <<"y", " ", "#", "1">>, <<"n", "#">>, <<"x">> }

SummaryCodes == { <<"y">>, <<"a">>, <<"n">>, <<"a", "#", "1">>, <<"Y">> }

KeyOrders ==
    { ks \in UNION { [1..n -> VersionKeys] : n \in 0..MaxVersions } :
        \A i, j \in 1..Len(ks) : i # j => ks[i] # ks[j] }

\* Every version mapping of at most MaxVersions entries, in every insertion order.
VersionMaps ==
    UNION { { [i \in 1..Len(ks) |-> [key |-> ks[i], value |-> vs[i]]] :
                vs \in [1..Len(ks) -> RawCodes] } : ks \in KeyOrders }

OneVersionMaps ==
    {<<>>} \cup { <<[key |-> <<"1", "3">>, value |-> c]>> : c \in SummaryCodes }

\* The cells of the panel, and one cell of a panel family that the panel lacks.
Cells ==
    { <<MAJOR_CLIENTS[i].family, MAJOR_CLIENTS[i].platform>> : i \in 1..Len(MAJOR_CLIENTS) }
        \cup { <<"outlook", "ios">> }

\* The stats object that records mapping m[c] under each cell c of DOMAIN m.
StatsOf(m) ==
    [ fam \in {c[1] : c \in DOMAIN m} |->
        [ plat \in {c[2] : c \in {d \in DOMAIN m : d[1] = fam}} |-> m[<<fam, plat>>] ] ]

NoNotes == [isNull |-> TRUE, notes |-> <<>>]
SomeNotes == [isNull |-> FALSE, notes |-> [n \in {<<"1">>} |-> "note"]]
NoKeywords == [isNull |-> TRUE, str |-> <<>>]

StatsFeature(stats, notesByNum) ==
    [category |-> "css", keywords |-> NoKeywords, notesByNum |-> notesByNum,
     slug |-> <<"c", "s", "s", "-", "a">>, stats |-> stats, title |-> <<"a">>]

\* Features that record at most MaxCells cells, each with at most one version.
SeveralCellFeatures ==
    { StatsFeature(StatsOf(m), NoNotes) :
        m \in UNION { [cs -> OneVersionMaps] :
                        cs \in {c \in SUBSET Cells : Cardinality(c) <= MaxCells} } }

\* Features that record one cell, with every version mapping.
OneCellFeatures ==
    { StatsFeature(StatsOf([c \in {cell} |-> vm]), notes) :
        cell \in Cells, vm \in VersionMaps, notes \in {NoNotes, SomeNotes} }

(***************************************************************************)
(* getFeatureSupportSummary as a process: one step per panel client.       *)
(***************************************************************************)
InitSummary ==
    /\ feature \in SeveralCellFeatures \cup OneCellFeatures
    /\ ci = 0
    /\ support = NullSupport
    /\ result = EmptySummary
    /\ ClassifierIdle
    /\ IndexIdle
    /\ ExtractIdle
    /\ FetchIdle
    /\ HookIdle

\* for (const client of MAJOR_CLIENTS) { ... }
VisitClient ==
    /\ ci < Len(MAJOR_CLIENTS)
    /\ support' = GetSupportLevel(feature, MAJOR_CLIENTS[ci + 1].family,
                                   MAJOR_CLIENTS[ci + 1].platform)
    /\ result' = PlaceClient(result, feature, MAJOR_CLIENTS[ci + 1])
    /\ ci' = ci + 1
    /\ UNCHANGED feature
    /\ UNCHANGED <<clsVars, idxVars, extVars, fetchVars, hookVars>>

NextSummary == VisitClient

SpecSummary == InitSummary /\ [][NextSummary]_vars

(***************************************************************************)
(* Properties of the support summary.                                      *)
(***************************************************************************)
Buckets == {"supported", "partial", "unsupported", "unknown"}

Occurrences(res, client) ==
    Cardinality({ bk \in Buckets \X (1..Len(MAJOR_CLIENTS)) :
                    /\ bk[2] <= Len(res[bk[1]])
                    /\ res[bk[1]][bk[2]] = client })

\* C2: the four lists partition the panel: every client visited so far is in
\* exactly one list exactly once, a client not yet visited is in none, and the
\* lists hold panel clients only; at the end of the loop every panel client
\* is in exactly one list.
SummaryPartitionsPanel ==
    /\ \A j \in 1..Len(MAJOR_CLIENTS) :
          Occurrences(result, MAJOR_CLIENTS[j]) = (IF j <= ci THEN 1 ELSE 0)
    /\ \A b \in Buckets : \A k \in 1..Len(result[b]) : result[b][k] \in Panel

SummaryPartitionsPanelWitness ==
    /\ ci = Len(MAJOR_CLIENTS)
    /\ result.supported # <<>>
    /\ result.unsupported # <<>>
    /\ result.unknown # <<>>

HasCell(f, client) ==
    /\ client.family \in DOMAIN f.stats
    /\ client.platform \in DOMAIN f.stats[client.family]

CellOf(f, client) == f.stats[client.family][client.platform]

\* The list a raw support code stands for.
BucketOfCode(rawValue) ==
    LET m == MatchLevel(rawValue)
    IN  IF ~m.matched \/ m.level = "u" THEN "unknown"
        ELSE IF m.level = "y" THEN "supported"
        ELSE IF m.level = "a" THEN "partial"
        ELSE "unsupported"

InBucket(res, b, client) == \E k \in 1..Len(res[b]) : res[b][k] = client

\* C5: every panel client is placed by the raw code of the latest recorded
\* version of its cell (the last entry recorded): y in supported, a in partial,
\* n in unsupported; u, a malformed code, a missing family and a missing
\* platform in unknown.
PlacedByLatestRecordedCode ==
    ci = Len(MAJOR_CLIENTS) =>
        \A j \in 1..Len(MAJOR_CLIENTS) :
            LET client == MAJOR_CLIENTS[j]
            IN  IF ~HasCell(feature, client)
                THEN InBucket(result, "unknown", client)
                ELSE CellOf(feature, client) # <<>> =>
                        InBucket(result, BucketOfCode(Last(CellOf(feature, client)).value), client)

\* C6: when the cell of the client just visited exists, getSupportLevel answers
\* with the last inserted version and with the level of the value stored under
\* it; values under earlier versions have no influence.
LevelFromLastInsertedVersion ==
    (ci > 0 /\ HasCell(feature, MAJOR_CLIENTS[ci]) /\ CellOf(feature, MAJOR_CLIENTS[ci]) # <<>>) =>
        LET lastEntry == Last(CellOf(feature, MAJOR_CLIENTS[ci]))
            m == MatchLevel(lastEntry.value)
        IN  /\ ~support.isNull
            /\ support.version = lastEntry.key
            /\ support.level = (IF m.matched THEN m.level ELSE "u")

(***************************************************************************)
(* Inputs of the classifier.                                               *)
(***************************************************************************)
OneVersion(rawValue) == << [key |-> <<"1", "3">>, value |-> rawValue] >>

RefFeature(category, slug, title, keywords, cells) ==
    [category |-> category, keywords |-> keywords, notesByNum |-> NoNotes,
     slug |-> slug, stats |-> StatsOf(cells), title |-> title]

\* Unsupported by Outlook Windows, partial in Yahoo, supported by Gmail.
FeatureError ==
    RefFeature("css", <<"c", "s", "s", "-", "a">>, <<"a">>, NoKeywords,
               (<<"gmail", "desktop-webmail">> :> OneVersion(<<"y">>))
                  @@ (<<"outlook", "windows">> :> OneVersion(<<"n">>))
                  @@ (<<"yahoo", "desktop-webmail">> :> OneVersion(<<"a", " ", "#", "1">>)))

\* Partial in Outlook.com, supported by Gmail.
FeatureWarning ==
    RefFeature("css", <<"c", "s", "s", "-", "b">>, <<"b">>, NoKeywords,
               (<<"gmail", "desktop-webmail">> :> OneVersion(<<"y">>))
                  @@ (<<"outlook", "outlook-com">> :> OneVersion(<<"a">>)))

\* Supported by every panel client that is tracked, malformed in one.
FeatureSupported ==
    RefFeature("html", <<"h", "t", "m", "l", "-", "p">>, <<"p">>, NoKeywords,
               (<<"gmail", "desktop-webmail">> :> OneVersion(<<"y">>))
                  @@ (<<"apple-mail", "ios">> :> OneVersion(<<"y", "#", "2">>))
                  @@ (<<"samsung-email", "android">> :> OneVersion(<<"?">>)))

\* Tracked by no panel client.
FeatureUntracked ==
    RefFeature("html", <<"h", "t", "m", "l", "-", "b">>, <<"b">>, NoKeywords, <<>>)

ClassifierFeatures == {FeatureError, FeatureWarning, FeatureSupported, FeatureUntracked}

CssPropertyIds == { <<"a">>, <<"b">> }
CssAtRuleIds == { <<"@", "m">> }
HtmlElementIds == { <<"p">> }
HtmlAttributeIds == { <<"a">> }

\* Every iteration order of every subset of ids.
Orders(ids) ==
    { o \in UNION { [1..n -> ids] : n \in 0..Cardinality(ids) } :
        \A i, j \in 1..Len(o) : i # j => o[i] # o[j] }

\* Every mapping of some of the keys to features.
MapsOver(keys, features) == UNION { [ks -> features] : ks \in SUBSET keys }

InitClassifier ==
    /\ sets \in [cssProperties : Orders(CssPropertyIds), cssAtRules : Orders(CssAtRuleIds),
                 htmlElements : Orders(HtmlElementIds), htmlAttributes : Orders(HtmlAttributeIds)]
    /\ maps \in [css : MapsOver(CssPropertyIds \cup CssAtRuleIds, ClassifierFeatures),
                 element : MapsOver(HtmlElementIds, ClassifierFeatures),
                 attribute : MapsOver(HtmlAttributeIds, ClassifierFeatures)]
    /\ call = 1
    /\ item = 0
    /\ issues = <<>>
    /\ processedSlugs = {}

SummaryIdle ==
    /\ feature = FeatureUntracked
    /\ ci = Len(MAJOR_CLIENTS)
    /\ support = NullSupport
    /\ result = GetFeatureSupportSummary(FeatureUntracked)

Init == InitClassifier /\ SummaryIdle /\ IndexIdle /\ ExtractIdle /\ FetchIdle /\ HookIdle

Next ==
    \/ SkipItem /\ UNCHANGED <<sumVars, idxVars, extVars, fetchVars, hookVars>>
    \/ EmitIssue /\ UNCHANGED <<sumVars, idxVars, extVars, fetchVars, hookVars>>
    \/ NextCall /\ UNCHANGED <<sumVars, idxVars, extVars, fetchVars, hookVars>>

Spec == Init /\ [][Next]_vars

(***************************************************************************)
(* Properties of the classifier.                                           *)
(***************************************************************************)
\* C1: the issue list holds at most one issue per feature slug, whatever the
\* identifier sets and the mappings, also when several identifiers of one or
\* of several categories map to the same feature.
OneIssuePerSlug ==
    \A i, j \in 1..Len(issues) :
        issues[i].feature.slug = issues[j].feature.slug => i = j

\* Two identifiers of one category and one of another map to one feature.
OneIssuePerSlugWitness ==
    /\ call > Len(Calls)
    /\ Len(sets.cssProperties) = 2
    /\ Len(sets.htmlAttributes) = 1
    /\ \A k \in 1..2 : MapHas(maps.css, sets.cssProperties[k])
    /\ MapHas(maps.attribute, sets.htmlAttributes[1])
    /\ maps.css[sets.cssProperties[1]] = maps.css[sets.cssProperties[2]]
    /\ maps.css[sets.cssProperties[1]] = maps.attribute[sets.htmlAttributes[1]]
    /\ Len(issues) = 1

\* C3: an issue's severity is error iff its unsupported list is non-empty,
\* else warning iff its partial list is non-empty, else success.
SeverityFollowsSummary ==
    \A i \in 1..Len(issues) :
        LET is == issues[i]
        IN  /\ is.severity = "error" <=> is.summary.unsupported # <<>>
            /\ is.severity = "warning" <=>
                   (is.summary.unsupported = <<>> /\ is.summary.partial # <<>>)
            /\ is.severity = "success" <=>
                   (is.summary.unsupported = <<>> /\ is.summary.partial = <<>>)

\* All three severities are emitted, success once for a feature that is
\* supported where tracked and once for a feature no panel client tracks.
SeverityFollowsSummaryWitness ==
    /\ call > Len(Calls)
    /\ \E i \in 1..Len(issues) :
          issues[i].severity = "error" /\ issues[i].summary.partial # <<>>
    /\ \E i \in 1..Len(issues) : issues[i].severity = "warning"
    /\ \E i \in 1..Len(issues) :
          issues[i].severity = "success" /\ issues[i].summary.supported # <<>>
    /\ \E i \in 1..Len(issues) :
          issues[i].severity = "success" /\ Len(issues[i].summary.unknown) = Len(MAJOR_CLIENTS)

(***************************************************************************)
(* Inputs of the index builders: a catalogue of reference features whose   *)
(* slugs, titles and keywords claim common identifiers.                    *)
(***************************************************************************)
Keywords(str) == [isNull |-> FALSE, str |-> str]

ErrorCells ==
    (<<"gmail", "desktop-webmail">> :> OneVersion(<<"y">>))
        @@ (<<"outlook", "windows">> :> OneVersion(<<"n">>))

WarningCells ==
    (<<"gmail", "desktop-webmail">> :> OneVersion(<<"y">>))
        @@ (<<"apple-mail", "ios">> :> OneVersion(<<"a", " ", "#", "1">>))

SupportedCells ==
    (<<"gmail", "desktop-webmail">> :> OneVersion(<<"y">>))
        @@ (<<"yahoo", "desktop-webmail">> :> OneVersion(<<"maybe">>))

\* css-a, titled A, keywords 'b, c d'
CssA ==
    RefFeature("css", <<"c", "s", "s", "-", "a">>,
               <<"A">>,
               Keywords(<<"b", ",", " ", "c", " ", "d">>), ErrorCells)

\* css-b, titled B, no keywords
CssB ==
    RefFeature("css", <<"c", "s", "s", "-", "b">>,
               <<"B">>,
               NoKeywords, WarningCells)

\* css-x, titled b, keywords 'a,,B '
CssX ==
    RefFeature("css", <<"c", "s", "s", "-", "x">>,
               <<"b">>,
               Keywords(<<"a", ",", ",", "B", " ">>), SupportedCells)

\* html-p, titled '<p> element', keyword b
HtmlP ==
    RefFeature("html", <<"h", "t", "m", "l", "-", "p">>,
               <<"<", "p", ">", " ", "e", "l", "e", "m", "e", "n", "t">>,
               Keywords(<<"b">>), ErrorCells)

\* html-q, titled 'P element', keywords 'p, b c'
HtmlQ ==
    RefFeature("html", <<"h", "t", "m", "l", "-", "q">>,
               <<"P", " ", "e", "l", "e", "m", "e", "n", "t">>,
               Keywords(<<"p", ",", " ", "b", " ", "c">>), WarningCells)

\* html-b-attribute, titled 'b attribute', keyword p
HtmlBAttribute ==
    RefFeature("html", <<"h", "t", "m", "l", "-", "b", "-", "a", "t", "t", "r", "i", "b", "u", "t", "e">>,
               <<"b", " ", "a", "t", "t", "r", "i", "b", "u", "t", "e">>,
               Keywords(<<"p">>), SupportedCells)

\* html-c, titled 'The B attribute', keyword q
HtmlC ==
    RefFeature("html", <<"h", "t", "m", "l", "-", "c">>,
               <<"T", "h", "e", " ", "B", " ", "a", "t", "t", "r", "i", "b", "u", "t", "e">>,
               Keywords(<<"q">>), <<>>)

\* image-a, titled a, keywords 'a,b,p'
ImageA ==
    RefFeature("image", <<"i", "m", "a", "g", "e", "-", "a">>,
               <<"a">>,
               Keywords(<<"a", ",", "b", ",", "p">>), ErrorCells)

\* others-p, titled '<p> element', keywords 'a,p'
OthersP ==
    RefFeature("others", <<"o", "t", "h", "e", "r", "s", "-", "p">>,
               <<"<", "p", ">", " ", "e", "l", "e", "m", "e", "n", "t">>,
               Keywords(<<"a", ",", "p">>), WarningCells)

Catalogue == <<CssA, CssB, CssX, HtmlP, HtmlQ, HtmlBAttribute, HtmlC, ImageA, OthersP>>

\* Datasets: at most MaxFeatures features of the catalogue, slugs unique, in
\* every order.
Datasets ==
    { [i \in 1..Len(o) |-> Catalogue[o[i]]] :
        o \in { q \in UNION { [1..n -> 1..Len(Catalogue)] : n \in 0..MaxFeatures } :
                  \A i, j \in 1..Len(q) : i # j => q[i] # q[j] } }

InitIndex ==
    /\ data \in Datasets
    /\ builder \in Builders
    /\ bi = 0
    /\ bmap = EmptyMap
    /\ SummaryIdle
    /\ ClassifierIdle
    /\ ExtractIdle
    /\ FetchIdle
    /\ HookIdle

NextIndex ==
    \/ CssMapStep /\ UNCHANGED <<sumVars, clsVars, extVars, fetchVars, hookVars>>
    \/ ElementMapStep /\ UNCHANGED <<sumVars, clsVars, extVars, fetchVars, hookVars>>
    \/ AttributeMapStep /\ UNCHANGED <<sumVars, clsVars, extVars, fetchVars, hookVars>>

SpecIndex == InitIndex /\ [][NextIndex]_vars

(***************************************************************************)
(* Properties of the index builders.                                       *)
(***************************************************************************)
\* The identifiers a feature registers or tries to register in a mapping,
\* and those among them that it registers through its slug or its title.
ClaimedKeys(b, f) == DOMAIN Register(b, EmptyMap, f)
PrimaryKeys(b, f) == DOMAIN Register(b, EmptyMap, [f EXCEPT !.keywords = NoKeywords])

Claimants(key) == { i \in 1..bi : key \in ClaimedKeys(builder, data[i]) }
PrimaryClaimants(key) == { i \in 1..bi : key \in PrimaryKeys(builder, data[i]) }

Least(S) == CHOOSE x \in S : \A y \in S : x <= y
Greatest(S) == CHOOSE x \in S : \A y \in S : y <= x

MaxSources == 2

Fragments ==
    << <<"<", "p", " ", "s", "t", "y", "l", "e", "=", "\"">> \o CssPrefixed \o <<"\"", ">">>,
       <<"<", "b", " ", "S", "T", "Y", "L", "E", " ", "=", " ", "'">> \o CssCalc \o <<"'", ">">>,
       <<"<", "q", " ", "s", "t", "y", "l", "e", "=", "\"">> \o CssTwoPrefixes \o <<"\"", ">">>,
       <<"<", "p", " ", "s", "t", "y", "l", "e", "=", "\"">> \o CssInlineMedia \o <<"\"", ">">>,
       <<"<", "s", "t", "y", "l", "e", ">">> \o SheetMedia \o <<"<", "/", "s", "t", "y", "l", "e", ">">>,
       <<"<", "S", "T", "Y", "L", "E", " ", "t", "y", "p", "e", "=", "\"", "x", "\"", ">">> \o SheetMediaList \o <<"<", "/", "S", "t", "y", "l", "e", ">">>,
       <<"<", "s", "t", "y", "l", "e", ">">> \o SheetSupports \o <<"<", "/", "s", "t", "y", "l", "e", ">">>,
       <<"<", "s", "t", "y", "l", "e", ">">> \o SheetFontFace \o <<"<", "/", "s", "t", "y", "l", "e", ">">> >>

RECURSIVE Concat(_)
Concat(parts) == IF parts = <<>> THEN <<>> ELSE Head(parts) \o Concat(Tail(parts))

\* Markup of at most MaxSources fragments, in every order.
Documents ==
    { Concat([i \in 1..Len(o) |-> Fragments[o[i]]]) :
        o \in UNION { [1..n -> 1..Len(Fragments)] : n \in 0..MaxSources } }

\* The texts extractFeatures(text) hands to safeParser.
ParsedTexts(text) ==
    { Wrapped(InlineStyleAt(text, i).group) :
        i \in { j \in 1..Len(text) : InlineStyleAt(text, j).found } }
    \cup { StyleTagAt(text, i).group :
             i \in { j \in 1..Len(text) : StyleTagAt(text, j).found } }

InitExtract ==
    /\ \E text \in Documents : Enter(text) /\ throwsOn \in SUBSET ParsedTexts(text)
    /\ SummaryIdle
    /\ ClassifierIdle
    /\ IndexIdle
    /\ FetchIdle
    /\ HookIdle

NextExtract ==
    \/ InlineStyleParsed /\ UNCHANGED <<sumVars, clsVars, idxVars, fetchVars, hookVars>>
    \/ InlineStyleFallback /\ UNCHANGED <<sumVars, clsVars, idxVars, fetchVars, hookVars>>
    \/ InlineStylesDone /\ UNCHANGED <<sumVars, clsVars, idxVars, fetchVars, hookVars>>
    \/ StyleTagParsed /\ UNCHANGED <<sumVars, clsVars, idxVars, fetchVars, hookVars>>
    \/ StyleTagFallback /\ UNCHANGED <<sumVars, clsVars, idxVars, fetchVars, hookVars>>
    \/ WalkDeclaration /\ UNCHANGED <<sumVars, clsVars, idxVars, fetchVars, hookVars>>
    \/ WalkPastProperties /\ UNCHANGED <<sumVars, clsVars, idxVars, fetchVars, hookVars>>
    \/ EndInlineWalk /\ UNCHANGED <<sumVars, clsVars, idxVars, fetchVars, hookVars>>
    \/ StartAtRulesWalk /\ UNCHANGED <<sumVars, clsVars, idxVars, fetchVars, hookVars>>
    \/ WalkAtRule /\ UNCHANGED <<sumVars, clsVars, idxVars, fetchVars, hookVars>>
    \/ WalkPastAtRules /\ UNCHANGED <<sumVars, clsVars, idxVars, fetchVars, hookVars>>
    \/ EndAtRulesWalk /\ UNCHANGED <<sumVars, clsVars, idxVars, fetchVars, hookVars>>
    \/ Return /\ UNCHANGED <<sumVars, clsVars, idxVars, fetchVars, hookVars>>

SpecExtract == InitExtract /\ [][NextExtract]_vars

(***************************************************************************)
(* Properties of the walks of a parsed tree.                               *)
(***************************************************************************)
ClaimedPrefixes ==
    { <<"-", "w", "e", "b", "k", "i", "t", "-">>, <<"-", "m", "o", "z", "-">>, <<"-", "m", "s", "-">>, <<"-", "o", "-">> }

HasClaimedPrefix(prop) == \E px \in ClaimedPrefixes : StartsWith(prop, px)

WithoutClaimedPrefix(prop) ==
    LET px == CHOOSE q \in ClaimedPrefixes : StartsWith(prop, q)
    IN  SubSeq(prop, Len(px) + 1, Len(prop))

\* C9: when the walk of a parsed tree visits a declaration whose lowercased
\* property name begins with -webkit-, -moz-, -ms- or -o-, the property set
\* holds the name without that prefix afterwards, and the visit does not
\* put the prefixed name into the set.
VendorPrefixStripped ==
    [][ ( /\ walk = "properties"
          /\ ni < Len(root)
          /\ ni' = ni + 1
          /\ root[ni + 1].type = "decl"
          /\ HasClaimedPrefix(ToLowerCase(root[ni + 1].prop)) )
        => LET prop == ToLowerCase(root[ni + 1].prop)
           IN  /\ WithoutClaimedPrefix(prop) \in Members(cssProperties')
               /\ prop \in Members(cssProperties') => prop \in Members(cssProperties)
      ]_vars

\* The walk has just visited -MOZ-a: the set holds a and not -moz-a.
VendorPrefixStrippedWitness ==
    /\ walk = "properties"
    /\ ni > 0
    /\ root[ni].type = "decl"
    /\ ToLowerCase(root[ni].prop) = <<"-", "m", "o", "z", "-", "a">>
    /\ <<"a">> \in Members(cssProperties)
    /\ <<"-", "m", "o", "z", "-", "a">> \notin Members(cssProperties)

\* The feature names of a media query: each run of letters and hyphens that
\* stands after "(" and after which ":", "," or ")" stands, whitespace
\* allowed on either side of the run.
ClaimedMediaFeatures(params) ==
    { ToLowerCase(SubSeq(params, ab[1], ab[2])) :
        ab \in { q \in (1..Len(params)) \X (1..Len(params)) :
                   /\ q[1] <= q[2]
                   /\ \A k \in q[1]..q[2] : params[k] \in Letters \cup {"-"}
                   /\ \E o \in 1..(q[1] - 1) :
                         /\ params[o] = "("
                         /\ \A k \in (o + 1)..(q[1] - 1) : params[k] \in Whitespace
                   /\ \E t \in (q[2] + 1)..Len(params) :
                         /\ params[t] \in {":", ",", ")"}
                         /\ \A k \in (q[2] + 1)..(t - 1) : params[k] \in Whitespace } }

MaxCalls == 3

\* The arguments of the calls.
CallDocuments ==
    { Fragments[1],
      Fragments[4] \o Fragments[5],
      Fragments[3] \o Fragments[8] }

\* extractFeatures has returned and is called again: the caller has the
\* result of the call that ended, the new call builds its own collections.
CallAgain ==
    /\ phase = "done"
    /\ calls < MaxCalls
    /\ firstResult' = IF MapHas(firstResult, html) THEN firstResult
                      ELSE MapSet(firstResult, html, Returned)
    /\ html' \in CallDocuments
    /\ phase' = "inline"
    /\ lastIndex' = 0
    /\ cssProperties' = Entry(cssProperties, cssAtRules, cssValues).cssProperties
    /\ cssAtRules' = Entry(cssProperties, cssAtRules, cssValues).cssAtRules
    /\ cssValues' = Entry(cssProperties, cssAtRules, cssValues).cssValues
    /\ htmlAttributes' = <<>>
    /\ htmlElements' = <<>>
    /\ calls' = calls + 1
    /\ UNCHANGED <<throwsOn, root, walk, ni, raised>>

InitCalls ==
    /\ \E text \in CallDocuments : Enter(text)
    /\ throwsOn \in SUBSET UNION { ParsedTexts(text) : text \in CallDocuments }
    /\ SummaryIdle
    /\ ClassifierIdle
    /\ IndexIdle
    /\ FetchIdle
    /\ HookIdle

NextCalls ==
    \/ InlineStyleParsed /\ UNCHANGED <<sumVars, clsVars, idxVars, fetchVars, hookVars>>
    \/ InlineStyleFallback /\ UNCHANGED <<sumVars, clsVars, idxVars, fetchVars, hookVars>>
    \/ InlineStylesDone /\ UNCHANGED <<sumVars, clsVars, idxVars, fetchVars, hookVars>>
    \/ StyleTagParsed /\ UNCHANGED <<sumVars, clsVars, idxVars, fetchVars, hookVars>>
    \/ StyleTagFallback /\ UNCHANGED <<sumVars, clsVars, idxVars, fetchVars, hookVars>>
    \/ WalkDeclaration /\ UNCHANGED <<sumVars, clsVars, idxVars, fetchVars, hookVars>>
    \/ WalkPastProperties /\ UNCHANGED <<sumVars, clsVars, idxVars, fetchVars, hookVars>>
    \/ EndInlineWalk /\ UNCHANGED <<sumVars, clsVars, idxVars, fetchVars, hookVars>>
    \/ StartAtRulesWalk /\ UNCHANGED <<sumVars, clsVars, idxVars, fetchVars, hookVars>>
    \/ WalkAtRule /\ UNCHANGED <<sumVars, clsVars, idxVars, fetchVars, hookVars>>
    \/ WalkPastAtRules /\ UNCHANGED <<sumVars, clsVars, idxVars, fetchVars, hookVars>>
    \/ EndAtRulesWalk /\ UNCHANGED <<sumVars, clsVars, idxVars, fetchVars, hookVars>>
    \/ Return /\ UNCHANGED <<sumVars, clsVars, idxVars, fetchVars, hookVars>>
    \/ CallAgain /\ UNCHANGED <<sumVars, clsVars, idxVars, fetchVars, hookVars>>

SpecCalls == InitCalls /\ [][NextCalls]_vars

\* C8: whenever a call of extractFeatures returns and an earlier call had
\* the same argument, the four sets returned equal the four sets the first
\* call on that argument returned, whatever calls were made in between.
SameTextSameSets ==
    (phase = "done" /\ MapHas(firstResult, html)) => Returned = firstResult[html]

\* A third call returns; its argument was that of the first call, the
\* second call had another argument, and safeParser threw in the course.
SameTextSameSetsWitness ==
    /\ phase = "done"
    /\ calls = 3
    /\ MapHas(firstResult, html)
    /\ \E other \in DOMAIN firstResult :
          other # html /\ firstResult[other].cssProperties # Returned.cssProperties
    /\ Returned.cssProperties # {}
    /\ throwsOn # {}

(***************************************************************************)
(* The pipeline: extractFeatures, the three builders, then                 *)
(* createCompatibilityIssues on what they returned.                        *)
(***************************************************************************)
PipelineDocuments ==
    { Fragments[2],
      Fragments[1] \o Fragments[5],
      Fragments[4] \o Fragments[8] }

\* The caller hands the four sets of extractFeatures and the three maps of
\* the builders to createCompatibilityIssues, which starts with an empty
\* issue list and an empty set of processed slugs.
Classify ==
    /\ phase = "done"
    /\ phase' = "classified"
    /\ sets' = [cssProperties |-> cssProperties, cssAtRules |-> cssAtRules,
                htmlElements |-> htmlElements, htmlAttributes |-> htmlAttributes]
    /\ maps' = [css |-> BuildCssPropertyMap(data), element |-> BuildHtmlElementMap(data),
                attribute |-> BuildHtmlAttributeMap(data)]
    /\ call' = 1
    /\ item' = 0
    /\ issues' = <<>>
    /\ processedSlugs' = {}
    /\ UNCHANGED <<html, throwsOn, lastIndex, root, walk, ni, cssProperties, cssAtRules,
                   cssValues, htmlAttributes, htmlElements, raised, calls, firstResult>>

InitPipeline ==
    /\ \E text \in PipelineDocuments : Enter(text) /\ throwsOn \in SUBSET ParsedTexts(text)
    /\ data \in Datasets
    /\ builder = "css"
    /\ bi = 0
    /\ bmap = EmptyMap
    /\ SummaryIdle
    /\ ClassifierIdle
    /\ FetchIdle
    /\ HookIdle

NextPipeline ==
    \/ InlineStyleParsed /\ UNCHANGED <<sumVars, clsVars, idxVars, fetchVars, hookVars>>
    \/ InlineStyleFallback /\ UNCHANGED <<sumVars, clsVars, idxVars, fetchVars, hookVars>>
    \/ InlineStylesDone /\ UNCHANGED <<sumVars, clsVars, idxVars, fetchVars, hookVars>>
    \/ StyleTagParsed /\ UNCHANGED <<sumVars, clsVars, idxVars, fetchVars, hookVars>>
    \/ StyleTagFallback /\ UNCHANGED <<sumVars, clsVars, idxVars, fetchVars, hookVars>>
    \/ WalkDeclaration /\ UNCHANGED <<sumVars, clsVars, idxVars, fetchVars, hookVars>>
    \/ WalkPastProperties /\ UNCHANGED <<sumVars, clsVars, idxVars, fetchVars, hookVars>>
    \/ EndInlineWalk /\ UNCHANGED <<sumVars, clsVars, idxVars, fetchVars, hookVars>>
    \/ StartAtRulesWalk /\ UNCHANGED <<sumVars, clsVars, idxVars, fetchVars, hookVars>>
    \/ WalkAtRule /\ UNCHANGED <<sumVars, clsVars, idxVars, fetchVars, hookVars>>
    \/ WalkPastAtRules /\ UNCHANGED <<sumVars, clsVars, idxVars, fetchVars, hookVars>>
    \/ EndAtRulesWalk /\ UNCHANGED <<sumVars, clsVars, idxVars, fetchVars, hookVars>>
    \/ Return /\ UNCHANGED <<sumVars, clsVars, idxVars, fetchVars, hookVars>>
    \/ Classify /\ UNCHANGED <<sumVars, idxVars, fetchVars, hookVars>>
    \/ SkipItem /\ UNCHANGED <<sumVars, idxVars, extVars, fetchVars, hookVars>>
    \/ EmitIssue /\ UNCHANGED <<sumVars, idxVars, extVars, fetchVars, hookVars>>
    \/ NextCall /\ UNCHANGED <<sumVars, idxVars, extVars, fetchVars, hookVars>>

SpecPipeline == InitPipeline /\ [][NextPipeline]_vars

\* createCompatibilityIssues has returned to the caller of the pipeline.
PipelineReturned == phase = "classified" /\ call = Len(Calls) + 1

WellFormedIssue(issue) ==
    /\ \E i \in 1..Len(data) : data[i] = issue.feature
    /\ issue.featureType \in { Calls[c].featureType : c \in 1..Len(Calls) }
    /\ issue.property # <<>>
    /\ issue.severity \in {"error", "warning", "success"}
    /\ issue.summary = GetFeatureSupportSummary(issue.feature)
    /\ \A j \in 1..Len(MAJOR_CLIENTS) : Occurrences(issue.summary, MAJOR_CLIENTS[j]) = 1

\* C7: no step of the pipeline lets an exception out, whatever the markup,
\* the texts safeParser throws on and the reference dataset are, and the
\* list createCompatibilityIssues returns holds well-formed issues only.
PipelineNeverRaises ==
    /\ ~raised
    /\ phase # "raised"
    /\ PipelineReturned => \A k \in 1..Len(issues) : WellFormedIssue(issues[k])

\* The pipeline has returned issues although safeParser threw, a feature of
\* the dataset has no keywords and one has a malformed support code.
PipelineNeverRaisesWitness ==
    /\ PipelineReturned
    /\ throwsOn # {}
    /\ issues # <<>>
    /\ \E i \in 1..Len(data) : data[i].keywords.isNull
    /\ \E i \in 1..Len(data) : data[i] = CssX

(***************************************************************************)
(* Style texts with value features, at-rules and comments, each parsed or  *)
(* handled by the fallback.                                                *)
(***************************************************************************)
GradientFragment == <<"<", "i", " ", "s", "t", "y", "l", "e", "=", "\"">> \o CssGradient \o <<"\"", ">">>
CommentFragment == <<"<", "s", "t", "y", "l", "e", ">">> \o SheetComment \o <<"<", "/", "s", "t", "y", "l", "e", ">">>

UnknownPrefixFragment == <<"<", "u", " ", "s", "t", "y", "l", "e", "=", "\"">> \o CssUnknownPrefix \o <<"\"", ">">>

StyleFragments ==
    { <<>>,
      Fragments[2], Fragments[3], Fragments[4], Fragments[7], Fragments[8],
      GradientFragment, CommentFragment, UnknownPrefixFragment }

\* Markup of two of these fragments, in either order.
StyleDocuments == { a \o b : a \in StyleFragments, b \in StyleFragments }

InitStyles ==
    /\ \E text \in StyleDocuments : Enter(text) /\ throwsOn \in SUBSET ParsedTexts(text)
    /\ SummaryIdle
    /\ ClassifierIdle
    /\ IndexIdle
    /\ FetchIdle
    /\ HookIdle

NextStyles ==
    \/ InlineStyleParsed /\ UNCHANGED <<sumVars, clsVars, idxVars, fetchVars, hookVars>>
    \/ InlineStyleFallback /\ UNCHANGED <<sumVars, clsVars, idxVars, fetchVars, hookVars>>
    \/ InlineStylesDone /\ UNCHANGED <<sumVars, clsVars, idxVars, fetchVars, hookVars>>
    \/ StyleTagParsed /\ UNCHANGED <<sumVars, clsVars, idxVars, fetchVars, hookVars>>
    \/ StyleTagFallback /\ UNCHANGED <<sumVars, clsVars, idxVars, fetchVars, hookVars>>
    \/ WalkDeclaration /\ UNCHANGED <<sumVars, clsVars, idxVars, fetchVars, hookVars>>
    \/ WalkPastProperties /\ UNCHANGED <<sumVars, clsVars, idxVars, fetchVars, hookVars>>
    \/ EndInlineWalk /\ UNCHANGED <<sumVars, clsVars, idxVars, fetchVars, hookVars>>
    \/ StartAtRulesWalk /\ UNCHANGED <<sumVars, clsVars, idxVars, fetchVars, hookVars>>
    \/ WalkAtRule /\ UNCHANGED <<sumVars, clsVars, idxVars, fetchVars, hookVars>>
    \/ WalkPastAtRules /\ UNCHANGED <<sumVars, clsVars, idxVars, fetchVars, hookVars>>
    \/ EndAtRulesWalk /\ UNCHANGED <<sumVars, clsVars, idxVars, fetchVars, hookVars>>
    \/ Return /\ UNCHANGED <<sumVars, clsVars, idxVars, fetchVars, hookVars>>

SpecStyles == InitStyles /\ [][NextStyles]_vars

\* The name a declaration's own property is recorded under.
OwnName(prop) == IF HasClaimedPrefix(prop) THEN WithoutClaimedPrefix(prop) ELSE prop

\* The catalogue entries whose pattern matches value.
MatchingFeatures(value) ==
    { ValueFeatures[n].feature :
        n \in { k \in 1..Len(ValueFeatures) :
                  IF ValueFeatures[k].call
                  THEN ContainsCall(value, ValueFeatures[k].word)
                  ELSE ContainsWord(value, ValueFeatures[k].word) } }

\* C11: when the walk of a parsed tree visits a declaration, the property
\* set afterwards holds the declaration's own property name and the feature
\* name of every catalogue entry whose pattern matches the lowercased value,
\* and the visit adds nothing else.
ValueFeaturesRecorded ==
    [][ ( /\ walk = "properties"
          /\ ni < Len(root)
          /\ ni' = ni + 1
          /\ root[ni + 1].type = "decl" )
        => Members(cssProperties') =
              Members(cssProperties)
                 \cup {OwnName(ToLowerCase(root[ni + 1].prop))}
                 \cup MatchingFeatures(ToLowerCase(root[ni + 1].value))
      ]_vars

\* The walk has just visited ab:Repeating-Linear-Gradient(c),MAX (1).
ValueFeaturesRecordedWitness ==
    /\ walk = "properties"
    /\ ni > 0
    /\ root[ni].type = "decl"
    /\ root[ni].prop = <<"a", "b">>
    /\ Members(cssProperties) =
          { <<"a", "b">>, <<"l", "i", "n", "e", "a", "r", "-", "g", "r", "a", "d", "i", "e", "n", "t">>, <<"r", "e", "p", "e", "a", "t", "i", "n", "g", "-", "l", "i", "n", "e", "a", "r", "-", "g", "r", "a", "d", "i", "e", "n", "t">>, <<"m", "a", "x">> }

(***************************************************************************)
(* Properties of the fallback.                                             *)
(***************************************************************************)
\* The style attributes and the <style> blocks of the markup.
InlineSources(text) ==
    { InlineStyleAt(text, i).group : i \in { j \in 1..Len(text) : InlineStyleAt(text, j).found } }

SheetSources(text) ==
    { StyleTagAt(text, i).group : i \in { j \in 1..Len(text) : StyleTagAt(text, j).found } }

\* The 'name:' tokens of a text, comments apart: the runs of letters and
\* hyphens that ':' follows, whitespace allowed in between, of at least two
\* characters and not starting with '-', in lower case.
NameTokens(css) ==
    LET t == StripComments(css)
    IN  { ToLowerCase(SubSeq(t, ab[1], ab[2])) :
            ab \in { q \in (1..Len(t)) \X (1..Len(t)) :
                       /\ q[1] < q[2]
                       /\ \A k \in q[1]..q[2] : t[k] \in Letters \cup {"-"}
                       /\ t[q[1]] # "-"
                       /\ q[1] > 1 => t[q[1] - 1] \notin Letters \cup {"-"}
                       /\ \E c \in (q[2] + 1)..Len(t) :
                             /\ t[c] = ":"
                             /\ \A k \in (q[2] + 1)..(c - 1) : t[k] \in Whitespace } }

\* The '@name' tokens of a text, in lower case.
AtTokens(css) ==
    { <<"@">> \o ToLowerCase(SubSeq(css, ab[1], ab[2])) :
        ab \in { q \in (2..Len(css)) \X (2..Len(css)) :
                   /\ q[1] <= q[2]
                   /\ css[q[1] - 1] = "@"
                   /\ \A k \in q[1]..q[2] : css[k] \in Letters \cup {"-"}
                   /\ q[2] < Len(css) => css[q[2] + 1] \notin Letters \cup {"-"} } }

\* The own property names of the declarations of a parsed tree.
OwnNames(nodes) ==
    { OwnName(ToLowerCase(nodes[n].prop)) :
        n \in { k \in 1..Len(nodes) : nodes[k].type = "decl" } }

\* C12: no exception leaves extractFeatures when safeParser throws, and once
\* it has returned, the property set holds the 'name:' tokens of every
\* style attribute and <style> block safeParser threw on, the at-rule set
\* holds the '@name' tokens of every such <style> block, and the
\* declarations of every other style attribute and <style> block of the
\* markup are in the property set as well.
FallbackRecovers ==
    /\ ~raised
    /\ phase # "raised"
    /\ phase = "done" =>
          /\ \A c \in InlineSources(html) :
                IF Wrapped(c) \in throwsOn
                THEN NameTokens(c) \subseteq Members(cssProperties)
                ELSE OwnNames(SafeParser(Wrapped(c))) \subseteq Members(cssProperties)
          /\ \A c \in SheetSources(html) :
                IF c \in throwsOn
                THEN /\ NameTokens(c) \subseteq Members(cssProperties)
                     /\ AtTokens(c) \subseteq Members(cssAtRules)
                ELSE OwnNames(SafeParser(c)) \subseteq Members(cssProperties)

\* safeParser threw on the first <style> block, which has a comment, and
\* parsed the second.
FallbackRecoversWitness ==
    /\ phase = "done"
    /\ html = CommentFragment \o Fragments[7]
    /\ throwsOn = {SheetComment}
    /\ Members(cssProperties) =
          { <<"c", "d">>, <<"-", "-", "a">>, <<"-", "o", "-", "b">>, <<"c", "s", "s", " ", "v", "a", "r", "i", "a", "b", "l", "e", "s">> }
    /\ Members(cssAtRules) = { <<"@", "x">>, <<"@", "s", "u", "p", "p", "o", "r", "t", "s">> }

(***************************************************************************)
(* Properties of createCompatibilityIssues: categories and lookups.        *)
(***************************************************************************)
\* The categories in their fixed order: the type of the issues, the set of
\* identifiers, the mapping the identifiers are looked up in, the form of
\* the identifier in the issue.
Categories ==
    << [type |-> "css",            ids |-> sets.cssProperties,  map |-> maps.css,       open |-> <<>>,    close |-> <<>>],
       [type |-> "css-at-rule",    ids |-> sets.cssAtRules,     map |-> maps.css,       open |-> <<>>,    close |-> <<>>],
       [type |-> "html-element",   ids |-> sets.htmlElements,   map |-> maps.element,   open |-> <<"<">>, close |-> <<">">>],
       [type |-> "html-attribute", ids |-> sets.htmlAttributes, map |-> maps.attribute, open |-> <<>>,    close |-> <<>>] >>

CategoryOf(type) == CHOOSE c \in 1..Len(Categories) : Categories[c].type = type

\* The positions <<category, index>> of the identifiers that resolve to slug.
Resolving(slug) ==
    UNION { { <<c, k>> : k \in { n \in 1..Len(Categories[c].ids) :
                                   /\ Categories[c].ids[n] \in DOMAIN Categories[c].map
                                   /\ Categories[c].map[Categories[c].ids[n]].slug = slug } } :
            c \in 1..Len(Categories) }

\* The earliest of a non-empty set of positions: by category, then by index.
Earliest(S) ==
    CHOOSE x \in S : \A y \in S : x[1] < y[1] \/ (x[1] = y[1] /\ x[2] <= y[2])

\* C13: in the issue list every issue of an earlier category stands before
\* every issue of a later category, and once createCompatibilityIssues has
\* returned, the issue of a slug carries the type of the earliest category
\* with an identifier that resolves to the slug, and that identifier.
CategoriesInFixedOrder ==
    /\ \A i, j \in 1..Len(issues) :
          i < j => CategoryOf(issues[i].featureType) <= CategoryOf(issues[j].featureType)
    /\ call = Len(Calls) + 1 =>
          \A k \in 1..Len(issues) :
             LET first == Earliest(Resolving(issues[k].feature.slug))
                 cat == Categories[first[1]]
             IN  /\ issues[k].featureType = cat.type
                 /\ issues[k].property = cat.open \o cat.ids[first[2]] \o cat.close

\* A property and an attribute resolve to one slug; the issue list has the
\* issue of the property, then an issue of an element.
CategoriesInFixedOrderWitness ==
    /\ call = Len(Calls) + 1
    /\ Len(issues) = 2
    /\ issues[1].featureType = "css"
    /\ issues[2].featureType = "html-element"
    /\ \E k \in 1..Len(sets.htmlAttributes) :
          /\ sets.htmlAttributes[k] \in DOMAIN maps.attribute
          /\ maps.attribute[sets.htmlAttributes[k]].slug = issues[1].feature.slug

\* The identifiers, by category and index, that have an entry in the
\* mapping of their category.
Mapped ==
    UNION { { <<c, k>> : k \in { n \in 1..Len(Categories[c].ids) :
                                   Categories[c].ids[n] \in DOMAIN Categories[c].map } } :
            c \in 1..Len(Categories) }

\* Issue is is what the identifier at position ck of Mapped produces.
ProducedBy(is, ck) ==
    LET cat == Categories[ck[1]]
    IN  /\ is.featureType = cat.type
        /\ is.property = cat.open \o cat.ids[ck[2]] \o cat.close
        /\ is.feature = cat.map[cat.ids[ck[2]]]

\* C15: every issue is the issue of an identifier that has an entry in the
\* mapping of its category, with that entry as its feature, and the issues
\* are no more than such identifiers; visiting an identifier without an
\* entry changes neither the issue list nor the set of processed slugs.
LookupMissIsSilent ==
    /\ [](/\ \A k \in 1..Len(issues) : \E ck \in Mapped : ProducedBy(issues[k], ck)
          /\ Len(issues) <= Cardinality(Mapped))
    /\ [][ ( /\ call <= Len(Categories)
             /\ item < Len(Categories[call].ids)
             /\ item' = item + 1
             /\ Categories[call].ids[item + 1] \notin DOMAIN Categories[call].map )
           => /\ issues' = issues
              /\ processedSlugs' = processedSlugs
         ]_vars

\* The first property has no entry and the second has: one issue, of the
\* second property.
LookupMissIsSilentWitness ==
    /\ call = Len(Calls) + 1
    /\ Len(sets.cssProperties) = 2
    /\ sets.cssProperties[1] \notin DOMAIN maps.css
    /\ sets.cssProperties[2] \in DOMAIN maps.css
    /\ Len(issues) = 1
    /\ issues[1].property = sets.cssProperties[2]
    /\ issues[1].feature = maps.css[sets.cssProperties[2]]

(***************************************************************************)
(* Properties of the index builders: what the element mapping holds, what  *)
(* keywords may do.                                                        *)
(***************************************************************************)
\* C14 (as claimed): every key of the element mapping maps to a feature of
\* category html whose slug, the leading 'html-' apart, does not contain
\* 'attribute'.
ElementMapHasNoAttributeFeature ==
    builder = "element" =>
       \A key \in DOMAIN bmap :
          /\ bmap[key].category = "html"
          /\ ~Includes(StripPrefix(bmap[key].slug, <<"h", "t", "m", "l", "-">>), <<"a", "t", "t", "r", "i", "b", "u", "t", "e">>)

\* The keywords of a feature: the parts of its keyword string between
\* commas, trimmed and in lower case.
KeywordSet(f) == { KeywordsOf(f)[i] : i \in 1..Len(KeywordsOf(f)) }

\* C19: when a builder has visited a feature, every key the mapping had
\* before and the feature does not claim through its slug or title maps to
\* what it mapped to; every key that is new and not claimed through slug or
\* title is a keyword of the feature, not empty and, in the two HTML
\* builders, without a space; and every such keyword of a feature of the
\* builder's category is a key afterwards.
KeywordsNeverOverwrite ==
    [][ ( /\ bi < Len(data)
          /\ bi' = bi + 1 )
        => LET f == data[bi + 1]
               primary == PrimaryKeys(builder, f)
               ofCategory == f.category = (IF builder = "css" THEN "css" ELSE "html")
               eligible == { kw \in KeywordSet(f) :
                               /\ kw # <<>>
                               /\ builder # "css" => ~Includes(kw, <<" ">>) }
           IN  /\ \A key \in (DOMAIN bmap) \ primary :
                     key \in DOMAIN bmap' /\ bmap'[key] = bmap[key]
               /\ \A key \in (DOMAIN bmap') \ (DOMAIN bmap \cup primary) :
                     key \in eligible /\ bmap'[key] = f
               /\ ofCategory => eligible \subseteq DOMAIN bmap'
      ]_vars

\* The element builder has visited html-p, with keyword b, then html-q,
\* whose keyword p was a key already and whose keyword 'b c' has a space.
KeywordsNeverOverwriteWitness ==
    /\ builder = "element"
    /\ data = <<HtmlP, HtmlQ>>
    /\ bi = 2
    /\ bmap[<<"b">>] = HtmlP
    /\ <<"b", " ", "c">> \notin DOMAIN bmap

(***************************************************************************)
(* Properties of the extractor that the style texts decide.                *)
(***************************************************************************)
\* What safeParser builds from each style attribute and <style> block of
\* the markup, whether it throws on it or not.
TreesOf(text) ==
    { SafeParser(Wrapped(c)) : c \in InlineSources(text) }
       \cup { SafeParser(c) : c \in SheetSources(text) }

\* C16 (as claimed): once extractFeatures has returned, the property set
\* holds the feature name of every catalogue pattern that matches the
\* lowercased value of a declaration of a style text of the markup, whether
\* safeParser threw on the text or not.
ValueFeaturesWhateverTheParse ==
    phase = "done" =>
       \A nodes \in TreesOf(html) :
          \A n \in 1..Len(nodes) :
             nodes[n].type = "decl" =>
                MatchingFeatures(ToLowerCase(nodes[n].value)) \subseteq Members(cssProperties)

\* The names of the at-rules of a parsed tree, as recorded: '@name' in
\* lower case.
AtRuleNames(nodes) ==
    { <<"@">> \o ToLowerCase(nodes[n].name) :
        n \in { k \in 1..Len(nodes) : nodes[k].type = "atrule" } }

\* C17 (as claimed): once extractFeatures has returned, the at-rule set
\* holds '@name' in lower case for every at-rule of every tree safeParser
\* has built, be it from a style attribute or from a <style> block.
AtRulesOfEveryTreeRecorded ==
    phase = "done" =>
       /\ \A c \in InlineSources(html) :
             Wrapped(c) \notin throwsOn =>
                AtRuleNames(SafeParser(Wrapped(c))) \subseteq Members(cssAtRules)
       /\ \A c \in SheetSources(html) :
             c \notin throwsOn => AtRuleNames(SafeParser(c)) \subseteq Members(cssAtRules)

\* C20 (as claimed): when the walk has just visited a declaration with a
\* vendor-prefixed property name, the value collection has the lowercased
\* value under the name without the prefix.
PrefixedValueUnderUnprefixedKey ==
    ( /\ walk = "properties"
      /\ ni > 0
      /\ root[ni].type = "decl"
      /\ HasClaimedPrefix(ToLowerCase(root[ni].prop)) )
    => /\ MapHas(cssValues, WithoutClaimedPrefix(ToLowerCase(root[ni].prop)))
       /\ ToLowerCase(root[ni].value)
             \in cssValues[WithoutClaimedPrefix(ToLowerCase(root[ni].prop))]

(***************************************************************************)
(* Calls of fetchCanIEmailData over time.                                  *)
(***************************************************************************)
InitFetch ==
    /\ FetchIdle
    /\ HookIdle
    /\ SummaryIdle
    /\ ClassifierIdle
    /\ IndexIdle
    /\ ExtractIdle

NextFetch ==
    \/ \E c \in Callers : CallCached(c) /\ UNCHANGED <<sumVars, clsVars, idxVars, extVars, hookVars>>
    \/ \E c \in Callers : CallFetch(c) /\ UNCHANGED <<sumVars, clsVars, idxVars, extVars, hookVars>>
    \/ \E c \in Callers : Respond(c) /\ UNCHANGED <<sumVars, clsVars, idxVars, extVars, hookVars>>
    \/ \E c \in Callers : RequestFails(c) /\ UNCHANGED <<sumVars, clsVars, idxVars, extVars, hookVars>>
    \/ TimePasses /\ UNCHANGED <<sumVars, clsVars, idxVars, extVars, hookVars>>
    \/ Publish /\ UNCHANGED <<sumVars, clsVars, idxVars, extVars, hookVars>>

SpecFetch == InitFetch /\ [][NextFetch]_vars

\* C18 (as claimed): a call of fetchCanIEmailData is answered from
\* cachedData only while the validity window of DAY_IN_MS seconds since its
\* assignment has not expired; a call after that fetches.
StaleSnapshotNotReturned ==
    [][ \A c \in Callers :
           ( /\ fetchers[c].pc # "fetching"
             /\ fetchers'[c].pc = "returned"
             /\ fetchers'[c] # fetchers[c] )
           => now - cachedAt < DAY_IN_MS
      ]_vars

(***************************************************************************)
(* Categories of the mapped features.                                      *)
(***************************************************************************)
BuilderCategory == IF builder = "css" THEN "css" ELSE "html"

\* C21: every value of the CSS mapping is a feature of category css, every
\* value of the HTML element mapping and of the HTML attribute mapping is a
\* feature of category html; a feature of another category is the value of
\* no key.
MappedCategories ==
    \A key \in DOMAIN bmap :
        /\ bmap[key].category = BuilderCategory
        /\ \E i \in 1..bi : data[i] = bmap[key]

\* A dataset with a feature of category image or others and a feature of
\* the builder's category has been indexed.
MappedCategoriesWitness ==
    /\ bi = Len(data)
    /\ bmap # EmptyMap
    /\ \E i \in 1..bi : data[i].category \in {"image", "others"}

Begins(c) == fetchers[c].pc # "fetching" /\ fetchers'[c] # fetchers[c]

\* The call of caller c settles in this step.
Fulfils(c) == fetchers[c].pc = "fetching" /\ fetchers'[c].pc = "returned"
Rejects(c) == fetchers[c].pc = "fetching" /\ fetchers'[c].pc = "rejected"

\* C23: a call that begins while cachedData is set returns cachedData and
\* sends no request; a call whose request fails leaves cachedData as it
\* was, so that while it is not set a call that begins sends a request,
\* whatever requests are under way; every response that arrives is assigned
\* to cachedData, so that cachedData holds the result of the call that
\* completed last; and nothing else changes cachedData.
CachedUntilReplacedByLastCompletion ==
    [][ /\ \A c \in Callers :
              /\ (Begins(c) /\ cachedData # Undefined)
                    => /\ fetchers'[c] = [pc |-> "returned", got |-> cachedData]
                       /\ cachedData' = cachedData
                       /\ \A d \in Callers :
                             fetchers'[d].pc = "fetching" => fetchers[d].pc = "fetching"
              /\ (Begins(c) /\ cachedData = Undefined)
                    => /\ fetchers'[c].pc = "fetching"
                       /\ cachedData' = Undefined
              /\ Rejects(c) => cachedData' = cachedData
              /\ Fulfils(c)
                    => /\ fetchers'[c].got # Undefined
                       /\ cachedData' = fetchers'[c].got
        /\ cachedData' # cachedData => \E c \in Callers : Fulfils(c)
      ]_vars

\* Two calls began before either response arrived; the first completed with
\* one dataset, the second with a later one, which cachedData holds now.
CachedUntilReplacedByLastCompletionWitness ==
    /\ \A c \in Callers : fetchers[c].pc = "returned"
    /\ fetchers[1].got = CamelcaseKeys(Published(1))
    /\ fetchers[MaxCallers].got = CamelcaseKeys(Published(MaxPublished))
    /\ cachedData = fetchers[MaxCallers].got
    /\ cachedData # fetchers[1].got

(***************************************************************************)
(* Components that use useAsyncData: mounts, renders, settling promises.   *)
(***************************************************************************)
ErrorMessageArgs == {Null, Value("x")}
ResolvedValues == {Value("dataset"), Value("other")}

InitHooks ==
    /\ HookIdle
    /\ SummaryIdle
    /\ ClassifierIdle
    /\ IndexIdle
    /\ ExtractIdle
    /\ FetchIdle

NextHooks ==
    \/ \E arg \in ErrorMessageArgs :
          MountHook(arg) /\ UNCHANGED <<sumVars, clsVars, idxVars, extVars, fetchVars>>
    \/ \E m \in Instances :
          RunEffect(m) /\ UNCHANGED <<sumVars, clsVars, idxVars, extVars, fetchVars>>
    \/ \E m \in Instances :
          RunEffectThrows(m) /\ UNCHANGED <<sumVars, clsVars, idxVars, extVars, fetchVars>>
    \/ \E m \in Instances, v \in ResolvedValues :
          FetchFnResolves(m, v) /\ UNCHANGED <<sumVars, clsVars, idxVars, extVars, fetchVars>>
    \/ \E m \in Instances :
          FetchFnRejects(m) /\ UNCHANGED <<sumVars, clsVars, idxVars, extVars, fetchVars>>
    \/ \E m \in Instances, arg \in ErrorMessageArgs :
          Rerender(m, arg) /\ UNCHANGED <<sumVars, clsVars, idxVars, extVars, fetchVars>>
    \/ \E m \in Instances :
          Unmount(m) /\ UNCHANGED <<sumVars, clsVars, idxVars, extVars, fetchVars>>

SpecHooks == InitHooks /\ [][NextHooks]_vars

\* C24: per mount, fetchFn is called once, by the effect, and never again;
\* while the component is mounted, isLoading is true, data null and error
\* null until the call settles; afterwards isLoading is false, and either
\* the call resolved, data is the resolved value and error is null, or it
\* was rejected, error is the errorMessage of the mount and data is null.
LoadsOncePerMount ==
    \A m \in Instances :
        /\ hooks[m].fetchCalls = (IF hooks[m].stage \in {"none", "rendered"} THEN 0 ELSE 1)
        /\ (hooks[m].alive /\ hooks[m].stage \in {"rendered", "awaiting"})
              => /\ hooks[m].isLoading
                 /\ hooks[m].data = Null
                 /\ hooks[m].error = Null
        /\ (hooks[m].alive /\ hooks[m].stage = "settled")
              => /\ ~hooks[m].isLoading
                 /\ IF hooks[m].outcome = "resolved"
                    THEN /\ hooks[m].data = hooks[m].result
                         /\ hooks[m].error = Null
                    ELSE /\ hooks[m].outcome = "rejected"
                         /\ hooks[m].error = Value(hooks[m].captured)
                         /\ hooks[m].data = Null

\* One mounted component whose call was rejected after it had rendered again,
\* and another whose call resolved.
LoadsOncePerMountWitness ==
    /\ \A m \in Instances : hooks[m].alive /\ hooks[m].stage = "settled"
    /\ hooks[1].outcome = "rejected"
    /\ hooks[1].error = Value(DefaultErrorMessage)
    /\ hooks[1].errorMessage # DefaultErrorMessage
    /\ hooks[MaxMounts].outcome = "resolved"
    /\ hooks[MaxMounts].data = Value("dataset")

====
